---- MODULE Spec2Model ----
(***************************************************************************)
(* Model of virtManager/domain.py (class vmmDomain): the cached active and *)
(* inactive domain XML, the redefine engine with its device addressing,    *)
(* the lifecycle status and the statistics sampler.                        *)
(*                                                                         *)
(* Every public method is one action.  A method is translated as an        *)
(* operator from the object's state (a record "s") and the answers of the  *)
(* hypervisor during that call (a record "e") to the state after the call, *)
(* so that nested calls (get_xml -> refresh_xml -> tick) compose as in the *)
(* code.  The record of a call also carries what the call did besides      *)
(* assigning fields: "log", the backend calls and gobject.idle_add calls   *)
(* it made, in order; "submitted", the documents it passed to              *)
(* define_domain; "exc", the Python exception it ended with ("" for a      *)
(* normal return); "ran", the signals whose listeners ran inside the call  *)
(* (gobject.idle_add runs none: the main loop emits when it is idle);      *)
(* "carried", the states its status-changed notifications carry; "live",   *)
(* the fragments handed to the live instance; "flags", the flags of its    *)
(* XMLDesc calls; "memcalls", its setMemory and setMaxMemory calls.        *)
(* The first raise ends the call with the assignments                      *)
(* made so far.  The variables are the fields of the object; a statement   *)
(* about a call is a statement about the call's record, for every answer   *)
(* the hypervisor can give.  A long method is written as a chain of        *)
(* operators, one per stretch of its body, each taking the values computed *)
(* so far as parameters.                                                   *)
(*                                                                         *)
(* Units: timestamps are whole seconds and the CPU counter info[4] is in   *)
(* units of 10^9 ns, so the factor 1000.0*1000.0*1000.0 of the code is     *)
(* NanosPerSec == 1 here.  Floats are exact rationals [n, d] with d > 0.   *)
(***************************************************************************)
EXTENDS Integers, Sequences, FiniteSets, TLC

VARIABLES lastStatus, record, maxRecord, xml, inactive_xml, is_xml_valid,
          network_traffic, disk_io, stats_net_supported, stats_disk_supported

vars == <<lastStatus, record, maxRecord, xml, inactive_xml, is_xml_valid,
          network_traffic, disk_io, stats_net_supported, stats_disk_supported>>

-----------------------------------------------------------------------------
(* Bounds of the model *)

\* configured stats history length (config.get_stats_history_length()) in
\* Spec, SpecStats and SpecMem, and in SpecIo, where the rates need two
\* samples kept
HistLen == 1
IoHistLen == 2
\* timestamps handed to tick and read from the wall clock are 0..MaxTime;
\* in SpecIo, where the driver's clock only advances, 1..IoMaxTime
MaxTime == 2
IoMaxTime == 4
\* the chart lengths requested are 0..MaxLimit
MaxLimit == 5
\* SpecAvg: a history longer than the moving-average window, and the
\* timestamps 1..AvgMaxTime of a clock that only advances
AvgHistLen == 6
AvgMaxTime == 7

-----------------------------------------------------------------------------
(* Program constants *)

VIR_DOMAIN_NOSTATE == 0
VIR_DOMAIN_RUNNING == 1
VIR_DOMAIN_BLOCKED == 2
VIR_DOMAIN_PAUSED == 3
VIR_DOMAIN_SHUTDOWN == 4
VIR_DOMAIN_SHUTOFF == 5
VIR_DOMAIN_CRASHED == 6

\* initial value of every entry of maxRecord
InitialMaxRate == 10
\* width of the moving-average window
MovingAvgSamples == 5
\* bytes per KB in the sample fields
BytesPerKB == 1024
\* 1000.0*1000.0*1000.0, in the model's units (see the header)
NanosPerSec == 1
\* connection.host_memory_size() and connection.host_active_processor_count()
HostMemorySize == 4
HostActiveProcessorCount == 1
\* the "unbounded" maximum memory Xen reports for Dom0
MaxMemSentinel == 99

Times == 0..MaxTime

RawStates == {VIR_DOMAIN_NOSTATE, VIR_DOMAIN_RUNNING, VIR_DOMAIN_BLOCKED,
              VIR_DOMAIN_PAUSED, VIR_DOMAIN_SHUTDOWN, VIR_DOMAIN_SHUTOFF,
              VIR_DOMAIN_CRASHED}

-----------------------------------------------------------------------------
(* Rationals: the floats of the code *)

Rat(n, d) == IF d < 0 THEN [n |-> 0 - n, d |-> 0 - d] ELSE [n |-> n, d |-> d]
RInt(k) == [n |-> k, d |-> 1]
RLess(a, b) == a.n * b.d < b.n * a.d
RLeq(a, b) == a.n * b.d <= b.n * a.d
RMax(a, b) == IF RLess(a, b) THEN b ELSE a

-----------------------------------------------------------------------------
(* Documents.  A document is its formatting (0: as libxml2 serializes it,  *)
(* 1: as the hypervisor formats it) and the sequence of its device nodes.  *)
(* A node is [kind, key, tdev, children]: key is the value its addressing  *)
(* attribute holds (target dev, MAC, port, ...), tdev tells whether an      *)
(* interface carries a <target dev=.../>, children are the child elements   *)
(* the disk editors add and remove (<source>, <readonly/>, <shareable/>),   *)
(* each a [name, val], val being the path of a <source> and 0 otherwise.    *)

NoDoc == [fmt |-> 0 - 1, devs |-> <<>>]
Node(kind, key, tdev) ==
    [kind |-> kind, key |-> key, tdev |-> tdev, children |-> <<>>]
Doc(fmt, devs) == [fmt |-> fmt, devs |-> devs]

\* util.xml_parse_wrapper(xml, lambda d, c: d.serialize())
Serialize(doc) == [doc EXCEPT !.fmt = 0]

\* the indexes of the nodes of a kind, in document order
RECURSIVE NodesOfKind(_, _, _)
NodesOfKind(devs, kind, i) ==
    IF i > Len(devs) THEN <<>>
    ELSE IF devs[i].kind = kind
         THEN <<i>> \o NodesOfKind(devs, kind, i + 1)
         ELSE NodesOfKind(devs, kind, i + 1)

\* xpath "/domain/devices/<kind>[<attr>='<key>'][1]": the first match or none
\* (a key that is None, 0 here, is formatted as "None" and matches nothing)
XPathFirst(devs, kind, key) ==
    LET hits == SelectSeq(NodesOfKind(devs, kind, 1),
                          LAMBDA i : key # 0 /\ devs[i].key = key)
    IN IF hits = <<>> THEN <<>> ELSE <<hits[1]>>

-----------------------------------------------------------------------------
(* The object's state as one record, and the exception mechanism *)

Cur == [lastStatus |-> lastStatus, record |-> record, maxRecord |-> maxRecord,
        xml |-> xml, inactive_xml |-> inactive_xml,
        is_xml_valid |-> is_xml_valid,
        network_traffic |-> network_traffic, disk_io |-> disk_io,
        stats_net_supported |-> stats_net_supported,
        stats_disk_supported |-> stats_disk_supported,
        log |-> <<>>, submitted |-> <<>>, exc |-> "", ran |-> <<>>,
        carried |-> <<>>, live |-> <<>>, flags |-> <<>>, memcalls |-> <<>>]

\* a backend call or a gobject.idle_add of the current method call
Log(s, ev) == [s EXCEPT !.log = Append(@, ev)]

\* mutant: the signal is emitted in place, its listeners run in the call
EmitNow(s, signal) == [Log(s, signal) EXCEPT !.ran = Append(@, signal)]

\* "gobject.idle_add(util.idle_emit, self, signal)": the emission is
\* queued on the main loop; ran holds the signals whose listeners ran
\* before the call returned
IdleAdd(s, signal) == Log(s, signal)
Raise(s, what) == [s EXCEPT !.exc = what]
Raised(s) == s.exc # ""

\* is_active(): get_id() != -1
IsActive(e) == e.id # 0 - 1

-----------------------------------------------------------------------------
(* Lifecycle status *)

\* mutant: the raw code is kept
NormalizeStatusRaw(status) == status

\* _normalize_status
NormalizeStatus(status) ==
    IF status = VIR_DOMAIN_NOSTATE THEN VIR_DOMAIN_RUNNING
    ELSE IF status = VIR_DOMAIN_BLOCKED THEN VIR_DOMAIN_RUNNING
    ELSE status

\* mutant: only a shut-off domain counts as just started
JustStartedOnlyShutoff(last) == last = VIR_DOMAIN_SHUTOFF

\* the test "self.lastStatus in [SHUTDOWN, SHUTOFF, CRASHED]"
JustStarted(last) ==
    last \in {VIR_DOMAIN_SHUTDOWN, VIR_DOMAIN_SHUTOFF, VIR_DOMAIN_CRASHED}

\* "gobject.idle_add(util.idle_emit, self, "status-changed", status)"
IdleAddStatus(s, status) ==
    [IdleAdd(s, "status-changed") EXCEPT !.carried = Append(@, status)]

\* mutant: the raw code is compared with the stored state
UpdateStatusComparingRaw(s, rawstatus) ==
    IF rawstatus # s.lastStatus
    THEN IdleAddStatus([s EXCEPT !.inactive_xml =
                               IF JustStarted(s.lastStatus) THEN NoDoc ELSE @,
                           !.lastStatus = NormalizeStatus(rawstatus)],
                       NormalizeStatus(rawstatus))
    ELSE s

\* _update_status(status) with a status given by the caller
UpdateStatus(s, rawstatus) ==
    LET status == NormalizeStatus(rawstatus)
    IN IF status # s.lastStatus
       THEN IdleAddStatus([s EXCEPT !.inactive_xml =
                               IF JustStarted(s.lastStatus) THEN NoDoc ELSE @,
                           !.lastStatus = status],
                          status)
       ELSE s

\* _update_status(): the status is read with get_info()
UpdateStatusFromInfo(s, e) == UpdateStatus(Log(s, "info"), e.st)

-----------------------------------------------------------------------------
(* The statistics sampler *)

\* _invalidate_xml
InvalidateXml(s) == [s EXCEPT !.is_xml_valid = FALSE, !.inactive_xml = NoDoc]

\* mutant: no upper limit on the CPU percentage
ClampPercentNoCeiling(p) == IF RLess(p, RInt(0)) THEN RInt(0) ELSE p

\* lines 797-801: hard limit to 100.0, then enforce >= 0
ClampPercent(p) ==
    LET q == IF RLess(RInt(100), p) THEN RInt(100) ELSE p
    IN IF RLess(q, RInt(0)) THEN RInt(0) ELSE q

\* mutant: only a shut off machine is given zeros
SampleCpuStatsShutoffOnly(rec, e, now) ==
    LET prevTimestamp == IF Len(rec) > 0 THEN rec[1].timestamp ELSE 0
        prevCpuTime == IF Len(rec) > 0 THEN rec[1].cpuTimeAbs ELSE 0
        cpuTime == e.cpu - prevCpuTime
        den == ((now - prevTimestamp) * NanosPerSec) * HostActiveProcessorCount
    IN IF e.st = VIR_DOMAIN_SHUTOFF
       THEN [exc |-> FALSE, cpuTime |-> 0, cpuTimeAbs |-> 0,
             pcentCpuTime |-> RInt(0)]
       ELSE IF den = 0
            THEN [exc |-> TRUE, cpuTime |-> cpuTime, cpuTimeAbs |-> e.cpu,
                  pcentCpuTime |-> RInt(0)]
            ELSE [exc |-> FALSE, cpuTime |-> cpuTime, cpuTimeAbs |-> e.cpu,
                  pcentCpuTime |-> ClampPercent(Rat(cpuTime * 100, den))]

\* _sample_cpu_stats: [exc, cpuTime, cpuTimeAbs, pcentCpuTime]
SampleCpuStats(rec, e, now) ==
    LET prevTimestamp == IF Len(rec) > 0 THEN rec[1].timestamp ELSE 0
        prevCpuTime == IF Len(rec) > 0 THEN rec[1].cpuTimeAbs ELSE 0
        cpuTime == e.cpu - prevCpuTime
        den == ((now - prevTimestamp) * NanosPerSec) * HostActiveProcessorCount
    IN IF e.st \in {VIR_DOMAIN_SHUTOFF, VIR_DOMAIN_CRASHED}
       THEN [exc |-> FALSE, cpuTime |-> 0, cpuTimeAbs |-> 0,
             pcentCpuTime |-> RInt(0)]
       ELSE IF den = 0
            THEN [exc |-> TRUE, cpuTime |-> cpuTime, cpuTimeAbs |-> e.cpu,
                  pcentCpuTime |-> RInt(0)]
            ELSE [exc |-> FALSE, cpuTime |-> cpuTime, cpuTimeAbs |-> e.cpu,
                  pcentCpuTime |-> ClampPercent(Rat(cpuTime * 100, den))]

\* _sample_mem_stats: [pcentCurrMem, pcentMaxMem]
SampleMemStats(curmem, maxmem) ==
    [pcentCurrMem |-> Rat(curmem * 100, HostMemorySize),
     pcentMaxMem |-> Rat(maxmem * 100, HostMemorySize)]

\* mutant: the rate is returned as computed
FloorRateNone(ret) == ret

\* "max(ret, 0,0)": the largest of ret, 0 and 0
FloorRate(ret) == RMax(RMax(ret, RInt(0)), RInt(0))

\* _get_cur_rate(what): [exc, rate], from the two newest samples held
GetCurRate(rec, what) ==
    IF Len(rec) > 1
    THEN LET den == rec[1].timestamp - rec[2].timestamp
         IN IF den = 0 THEN [exc |-> TRUE, rate |-> RInt(0)]
            ELSE [exc |-> FALSE,
                  rate |-> FloorRate(Rat(rec[1][what] - rec[2][what], den))]
    ELSE [exc |-> FALSE, rate |-> FloorRate(RInt(0))]

\* mutant: the maximum follows the newest rate
SetMaxRateAlways(mr, what, rate) == [mr EXCEPT ![what] = rate]

\* _set_max_rate for one field, given the rate stored in the new sample
SetMaxRate(mr, what, rate) ==
    IF RLess(mr[what], rate) THEN [mr EXCEPT ![what] = rate] ELSE mr

\* mutant: the window is the whole history
WindowSizeUncapped(len) == len

\* "nSamples = 5; if nSamples > len(self.record): nSamples = len(self.record)"
WindowSize(len) == IF MovingAvgSamples > len THEN len ELSE MovingAvgSamples

\* the moving average of lines 916-933: [exc, avg, percent].  With an empty
\* history avg is the list ["cpuTimeAbs"], not a number: num is FALSE.
MovingAvg(rec, cpuTimeAbs, now) ==
    LET nSamples == WindowSize(Len(rec))
    IN IF nSamples = 0
       THEN [exc |-> FALSE, avg |-> [num |-> FALSE, val |-> 0],
             percent |-> RInt(0)]
       ELSE LET startCpuTime == rec[nSamples].cpuTimeAbs
                startTimestamp == rec[nSamples].timestamp
                den == ((now - startTimestamp) * NanosPerSec)
                           * HostActiveProcessorCount
            IN IF den = 0
               THEN [exc |-> TRUE, avg |-> [num |-> TRUE, val |-> 0],
                     percent |-> RInt(0)]
               ELSE [exc |-> FALSE,
                     avg |-> [num |-> TRUE,
                              val |-> (cpuTimeAbs - startCpuTime)
                                          \div nSamples],
                     percent |-> Rat((cpuTimeAbs - startCpuTime) * 100, den)]

-----------------------------------------------------------------------------
(* Device lists read by the sampler *)

\* get_disk_devices: every disk node; its row's dev is the target dev
DiskDevices(doc) == NodesOfKind(doc.devs, "disk", 1)

\* get_network_devices, then "if not dev: continue": the interfaces that
\* have a MAC (key # 0) and a target dev
PolledNetworkDevices(doc) ==
    SelectSeq(NodesOfKind(doc.devs, "interface", 1),
              LAMBDA i : doc.devs[i].key # 0 /\ doc.devs[i].tdev)

\* the hypervisor's answer to the i-th counter query of a call
Answer(answers, i) ==
    IF i > Len(answers) THEN answers[Len(answers)] ELSE answers[i]

\* mutant: every error of a query switches the category off
PollStepAnyErrorUnsupported(acc, s1, ans, flag) ==
    IF ans.err = "ok"
    THEN [s |-> s1, a |-> acc.a + ans.a, b |-> acc.b + ans.b]
    ELSE [acc EXCEPT !.s = [s1 EXCEPT ![flag] = FALSE]]

\* the body of the loop over the devices: acc is [s, a, b], s1 the state
\* after the query; an "ok" answer adds its two counters,
\* VIR_ERR_NO_SUPPORT clears the supported flag, any other error is logged
\* only
PollStep(acc, s1, ans, flag) ==
    IF ans.err = "ok"
    THEN [s |-> s1, a |-> acc.a + ans.a, b |-> acc.b + ans.b]
    ELSE IF ans.err = "nosupport"
         THEN [acc EXCEPT !.s = [s1 EXCEPT ![flag] = FALSE]]
         ELSE [acc EXCEPT !.s = s1]

\* the loop over the n devices of a category
RECURSIVE PollDevices(_, _, _, _, _, _)
PollDevices(acc, answers, n, i, call, flag) ==
    IF i > n THEN acc
    ELSE PollDevices(PollStep(acc, Log(acc.s, call), Answer(answers, i),
                              flag),
                     answers, n, i + 1, call, flag)

\* mutant: the supported flag is not consulted
NetSamplingSkippedIgnoringSupport(s, e) == ~IsActive(e)

\* "if not self._stats_net_supported or not self.is_active()"
NetSamplingSkipped(s, e) == ~s.stats_net_supported \/ ~IsActive(e)

\* "if not self._stats_disk_supported or not self.is_active()"
DiskSamplingSkipped(s, e) == ~s.stats_disk_supported \/ ~IsActive(e)

-----------------------------------------------------------------------------
(* XML fetching and tick, which call each other *)

RECURSIVE Tick(_, _, _)

\* mutant: the connection's state is not consulted
ConnectionIsActiveAlways(e) == TRUE

\* "self.connection.get_state() != self.connection.STATE_ACTIVE", negated
ConnectionIsActive(e) == e.conn

\* mutant: every fetch counts as a change
XmlChangedAlways(origxml, newxml) == TRUE

\* "if origxml != self._xml"
XmlChanged(origxml, newxml) == origxml # newxml

\* refresh_xml after its forced tick: the notification is queued when the
\* tick has returned
RefreshXmlTicked(s2) ==
    IF Raised(s2) THEN s2 ELSE IdleAdd(s2, "config-changed")

\* refresh_xml after the fetch: s is the state before the fetch, s1 after
RefreshXmlFetched(s, s1, e) ==
    IF XmlChanged(s.xml, s1.xml) THEN RefreshXmlTicked(Tick(s1, e, e.wall))
    ELSE s1

\* libvirt's XMLDesc flags as sets of bits; "|" is union and 0 the empty set
VIR_DOMAIN_XML_SECURE == {"secure"}
VIR_DOMAIN_XML_INACTIVE == {"inactive"}
AllDomFlags == VIR_DOMAIN_XML_INACTIVE \cup VIR_DOMAIN_XML_SECURE

\* connection.has_dom_flags(flags): the connection reports the flags as
\* supported by the hypervisor
HasDomFlags(e, flags) == flags \subseteq e.caps

\* _XMLDesc(flags): the flags handed to the hypervisor are kept
XMLDesc(s, ev, flags) == [Log(s, ev) EXCEPT !.flags = Append(@, flags)]

\* mutant: the secure flag is passed whatever the connection supports
RefreshXmlFlagsUnchecked(e) == VIR_DOMAIN_XML_SECURE

\* refresh_xml: "flags = VIR_DOMAIN_XML_SECURE;
\* if not self.connection.has_dom_flags(flags): flags = 0"
RefreshXmlFlags(e) ==
    IF ~HasDomFlags(e, VIR_DOMAIN_XML_SECURE) THEN {}
    ELSE VIR_DOMAIN_XML_SECURE

\* _refresh_inactive_xml: "flags = INACTIVE | SECURE;
\* if not has_dom_flags(flags): flags = INACTIVE;
\* if not self.connection.has_dom_flags: flags = 0": the inner test is of
\* the method itself, which is always true, so that 0 is never chosen
RefreshInactiveXmlFlags(e) ==
    IF ~HasDomFlags(e, AllDomFlags) THEN VIR_DOMAIN_XML_INACTIVE
    ELSE AllDomFlags

\* refresh_xml
RefreshXml(s, e) ==
    RefreshXmlFetched(s, [XMLDesc(s, "XMLDesc", RefreshXmlFlags(e))
                          EXCEPT !.xml = e.adoc, !.is_xml_valid = TRUE], e)

\* mutant: refresh_if_necc is not consulted
XmlFetchHelperRefreshing(s, e, refresh_if_necc) ==
    IF s.xml = NoDoc \/ ~s.is_xml_valid THEN RefreshXml(s, e) ELSE s

\* _xml_fetch_helper: the state after it; the value returned is its xml.
\* "if self._xml is None: refresh; elif refresh_if_necc and not valid: refresh"
XmlFetchHelper(s, e, refresh_if_necc) ==
    IF s.xml = NoDoc \/ (refresh_if_necc /\ ~s.is_xml_valid)
    THEN RefreshXml(s, e)
    ELSE s

\* get_xml and get_xml_no_refresh
GetXml(s, e) == XmlFetchHelper(s, e, TRUE)
GetXmlNoRefresh(s, e) == XmlFetchHelper(s, e, FALSE)

\* mutant: every inactive read fetches
GetInactiveXmlFetchingAlways(s, e) ==
    [XMLDesc(s, "XMLDescInactive", RefreshInactiveXmlFlags(e))
     EXCEPT !.inactive_xml = e.idoc]

\* _get_inactive_xml with _refresh_inactive_xml
GetInactiveXml(s, e) ==
    IF s.inactive_xml = NoDoc
    THEN [XMLDesc(s, "XMLDescInactive", RefreshInactiveXmlFlags(e))
          EXCEPT !.inactive_xml = e.idoc]
    ELSE s

\* what a sampler returns without a query
NoTraffic(s) == [s |-> s, a |-> 0, b |-> 0]

\* the loop of _sample_network_traffic over the devices of the document s1
\* holds
PollNetworkDevices(s1, e) ==
    IF Raised(s1) THEN NoTraffic(s1)
    ELSE PollDevices(NoTraffic(s1), e.net,
                     Len(PolledNetworkDevices(s1.xml)), 1,
                     "interfaceStats", "stats_net_supported")

\* _sample_network_traffic: [s, a, b] with a = rx and b = tx
SampleNetworkTraffic(s, e) ==
    IF NetSamplingSkipped(s, e) THEN NoTraffic(s)
    ELSE PollNetworkDevices(GetXmlNoRefresh(s, e), e)

\* the loop of _sample_disk_io over the devices of the document s1 holds
PollDiskDevices(s1, e) ==
    IF Raised(s1) THEN NoTraffic(s1)
    ELSE PollDevices(NoTraffic(s1), e.blk, Len(DiskDevices(s1.xml)), 1,
                     "blockStats", "stats_disk_supported")

\* _sample_disk_io: [s, a, b] with a = rd and b = wr
SampleDiskIo(s, e) ==
    IF DiskSamplingSkipped(s, e) THEN NoTraffic(s)
    ELSE PollDiskDevices(GetXmlNoRefresh(s, e), e)

\* self._network_traffic() and self._disk_io(): the sampler or its dummy
NetworkTraffic(s, e) ==
    IF s.network_traffic = "sample" THEN SampleNetworkTraffic(s, e)
    ELSE NoTraffic(s)
DiskIo(s, e) ==
    IF s.disk_io = "sample" THEN SampleDiskIo(s, e)
    ELSE NoTraffic(s)

\* mutant: the reported maximum is stored for every domain
MaxMemOfInfoUnclamped(e) == e.maxmem

\* "if self.get_id() == 0: info[1] = self.connection.host_memory_size()"
MaxMemOfInfo(e) == IF e.id = 0 THEN HostMemorySize ELSE e.maxmem

\* mutant: the history is not trimmed
TrimRecordNever(rec, expected) == rec

\* "if current > expected: del self.record[expected:current]"
TrimRecord(rec, expected) ==
    IF Len(rec) > expected THEN SubSeq(rec, 1, expected) ELSE rec

\* the dictionary newStats of lines 901-933, rates included
NewStats(now, e, maxmem, cpu, mem, dk, nt, mv, rates) ==
    [timestamp |-> now,
     cpuTime |-> cpu.cpuTime,
     cpuTimeAbs |-> cpu.cpuTimeAbs,
     cpuTimePercent |-> cpu.pcentCpuTime,
     currMem |-> e.mem,
     currMemPercent |-> mem.pcentCurrMem,
     vcpuCount |-> e.vcpus,
     maxMem |-> maxmem,
     maxMemPercent |-> mem.pcentMaxMem,
     diskRdKB |-> dk.a \div BytesPerKB,
     diskWrKB |-> dk.b \div BytesPerKB,
     netRxKB |-> nt.a \div BytesPerKB,
     netTxKB |-> nt.b \div BytesPerKB,
     cpuTimeMovingAvg |-> mv.avg,
     cpuTimeMovingAvgPercent |-> mv.percent,
     diskRdRate |-> rates.diskRd.rate,
     diskWrRate |-> rates.diskWr.rate,
     netRxRate |-> rates.netRx.rate,
     netTxRate |-> rates.netTx.rate]

\* the four calls of _get_cur_rate in the loop of lines 935-937
CurRates(rec) ==
    [diskRd |-> GetCurRate(rec, "diskRdKB"),
     diskWr |-> GetCurRate(rec, "diskWrKB"),
     netRx |-> GetCurRate(rec, "netRxKB"),
     netTx |-> GetCurRate(rec, "netTxKB")]

\* the four calls of _set_max_rate in the loop of lines 935-937
SetMaxRates(mr, newStats) ==
    SetMaxRate(SetMaxRate(SetMaxRate(SetMaxRate(
        mr, "diskRdRate", newStats.diskRdRate),
        "diskWrRate", newStats.diskWrRate),
        "netRxRate", newStats.netRxRate),
        "netTxRate", newStats.netTxRate)

\* mutant: the status is updated after resources-sampled is queued
TickInsertStatusLast(s3, e, newStats) ==
    UpdateStatus(IdleAdd([s3 EXCEPT !.record = <<newStats>> \o @,
                                    !.maxRecord = SetMaxRates(@, newStats)],
                         "resources-sampled"),
                 e.st)

\* tick, lines 939-941: insert, _update_status(info[0]), resources-sampled
TickInsert(s3, e, newStats) ==
    IdleAdd(UpdateStatus([s3 EXCEPT !.record = <<newStats>> \o @,
                                    !.maxRecord = SetMaxRates(@, newStats)],
                         e.st),
            "resources-sampled")

\* tick, lines 901-937: the moving average or the rates may divide by zero
TickStats(s3, e, now, cpu, dk, nt, mv, rates) ==
    IF mv.exc \/ rates.diskRd.exc THEN Raise(s3, "ZeroDivisionError")
    ELSE TickInsert(s3, e,
                    NewStats(now, e, MaxMemOfInfo(e), cpu,
                             SampleMemStats(e.mem, MaxMemOfInfo(e)),
                             dk, nt, mv, rates))

\* tick, after line 899: rxBytes, txBytes = self._network_traffic()
TickNet(e, now, cpu, dk, nt) ==
    IF Raised(nt.s) THEN nt.s
    ELSE TickStats(nt.s, e, now, cpu, dk, nt,
                   MovingAvg(nt.s.record, cpu.cpuTimeAbs, now),
                   CurRates(nt.s.record))

\* tick, after line 898: rdBytes, wrBytes = self._disk_io()
TickDisk(e, now, cpu, dk) ==
    IF Raised(dk.s) THEN dk.s
    ELSE TickNet(e, now, cpu, dk, NetworkTraffic(dk.s, e))

\* tick, after line 896: _sample_cpu_stats may divide by zero
TickCpu(s2, e, now, cpu) ==
    IF cpu.exc THEN Raise(s2, "ZeroDivisionError")
    ELSE TickDisk(e, now, cpu, DiskIo(s2, e))

\* tick, after the trim of lines 883-886
TickTrimmed(s2, e, now) ==
    TickCpu(s2, e, now, SampleCpuStats(s2.record, e, now))

\* tick(now)
Tick(s, e, now) ==
    IF ~ConnectionIsActive(e) THEN s
    ELSE TickTrimmed([Log(InvalidateXml(s), "info") EXCEPT
                         !.record = TrimRecord(@, e.histlen)],
                     e, now)

\* mutant: the resampling rewrites the sample before the newest as well
NetResampledBoth(nt) ==
    IF Raised(nt.s) THEN nt.s
    ELSE [nt.s EXCEPT !.record[1].netRxKB = nt.a \div BytesPerKB,
                      !.record[1].netTxKB = nt.b \div BytesPerKB,
                      !.record[2].netRxKB = nt.a \div BytesPerKB,
                      !.network_traffic = "sample"]

\* toggle_sample_network_traffic after the resampling: record[0] is rewritten
NetResampled(nt) ==
    IF Raised(nt.s) THEN nt.s
    ELSE [nt.s EXCEPT !.record[1].netRxKB = nt.a \div BytesPerKB,
                      !.record[1].netTxKB = nt.b \div BytesPerKB,
                      !.network_traffic = "sample"]

\* toggle_sample_network_traffic, enabled = config.get_stats_enable_net_poll()
ToggleSampleNetworkTraffic(s, e, enabled) ==
    IF enabled
    THEN IF Len(s.record) > 1 THEN NetResampled(SampleNetworkTraffic(s, e))
         ELSE [s EXCEPT !.network_traffic = "sample"]
    ELSE [s EXCEPT !.network_traffic = "dummy"]

\* toggle_sample_disk_io after the resampling: record[0] is rewritten
DiskResampled(dk) ==
    IF Raised(dk.s) THEN dk.s
    ELSE [dk.s EXCEPT !.record[1].diskRdKB = dk.a \div BytesPerKB,
                      !.record[1].diskWrKB = dk.b \div BytesPerKB,
                      !.disk_io = "sample"]

\* toggle_sample_disk_io, enabled = config.get_stats_enable_disk_poll()
ToggleSampleDiskIo(s, e, enabled) ==
    IF enabled
    THEN IF Len(s.record) > 1 THEN DiskResampled(SampleDiskIo(s, e))
         ELSE [s EXCEPT !.disk_io = "sample"]
    ELSE [s EXCEPT !.disk_io = "dummy"]

-----------------------------------------------------------------------------
(* Device addressing and the redefine engine *)

\* mutant: the console paired with a serial device is not looked up
GetDeviceXmlNodesNoConsole(doc, dev_type, dev_id_info) ==
    XPathFirst(doc.devs, dev_type, dev_id_info)

\* lines 1636-1641: the console with the same port joins a serial device
\* that was found
WithConsole(dev_type, ret, con) ==
    IF dev_type = "serial" /\ con # <<>> /\ ret # <<>> THEN ret \o con
    ELSE ret

\* _get_device_xml_nodes for the kinds addressed by one attribute: the
\* indexes of the nodes to alter or remove; <<>> stands for the RuntimeError
\* "Could not find device"
GetDeviceXmlNodes(doc, dev_type, dev_id_info) ==
    WithConsole(dev_type, XPathFirst(doc.devs, dev_type, dev_id_info),
                XPathFirst(doc.devs, "console", dev_id_info))

\* the nodes of devs whose index is not in idx, in document order
RECURSIVE WithoutNodes(_, _, _)
WithoutNodes(devs, idx, i) ==
    IF i > Len(devs) THEN <<>>
    ELSE IF i \in idx THEN WithoutNodes(devs, idx, i + 1)
         ELSE <<devs[i]>> \o WithoutNodes(devs, idx, i + 1)

\* unlink_dev_node: [exc, doc] for the nodes ret found in vmxml
UnlinkDevNode(vmxml, ret) ==
    IF ret = <<>> THEN [exc |-> TRUE, doc |-> vmxml]
    ELSE [exc |-> FALSE,
          doc |-> Serialize([vmxml EXCEPT !.devs =
                      WithoutNodes(@, {ret[j] : j \in 1..Len(ret)}, 1)])]

\* the children of a node without the first one named name
RECURSIVE WithoutFirstChild(_, _)
WithoutFirstChild(children, name) ==
    IF children = <<>> THEN <<>>
    ELSE IF Head(children).name = name THEN Tail(children)
         ELSE <<Head(children)>> \o WithoutFirstChild(Tail(children), name)

\* "for child in ...children: if child.name == node_name"
HasChild(children, name) ==
    \E j \in 1..Len(children) : children[j].name = name

\* the document serialized after the children of its node i became c
WithChildren(doc, i, c) ==
    [exc |-> FALSE, doc |-> Serialize([doc EXCEPT !.devs[i].children = c])]

\* _media_xml_connect: the disk found gets a new <source> child for newpath
MediaXmlConnect(doc, ret, newpath) ==
    IF ret = <<>> THEN [exc |-> TRUE, doc |-> doc]
    ELSE WithChildren(doc, ret[1],
             Append(doc.devs[ret[1]].children,
                    [name |-> "source", val |-> newpath]))

\* _media_xml_disconnect: the first <source> child of the disk is unlinked
MediaXmlDisconnect(doc, ret) ==
    IF ret = <<>> THEN [exc |-> TRUE, doc |-> doc]
    ELSE WithChildren(doc, ret[1],
             WithoutFirstChild(doc.devs[ret[1]].children, "source"))

\* _change_disk_param: "if bool(found_node) != newvalue", the child is
\* unlinked or a new one is added
ChangeDiskParam(doc, ret, node_name, newvalue) ==
    IF ret = <<>> THEN [exc |-> TRUE, doc |-> doc]
    ELSE IF HasChild(doc.devs[ret[1]].children, node_name) = newvalue
    THEN WithChildren(doc, ret[1], doc.devs[ret[1]].children)
    ELSE IF ~newvalue
    THEN WithChildren(doc, ret[1],
             WithoutFirstChild(doc.devs[ret[1]].children, node_name))
    ELSE WithChildren(doc, ret[1],
             Append(doc.devs[ret[1]].children,
                    [name |-> node_name, val |-> 0]))

\* the xml_func of a redefine call applied to the sanitized base:
\* [exc, doc].  "identity" returns its argument, "add" is _add_xml_device
\* (arg is the node added), "remove" is _remove_xml_device (arg is the
\* node addressed by its kind and key), "media" is change_cdrom_helper
\* (arg is [key, newpath], newpath 0 for none), "param" is
\* _change_disk_param (arg is [key, name, val]).
Transform(xml_func, origxml, arg) ==
    IF xml_func = "add"
    THEN [exc |-> FALSE, doc |-> [origxml EXCEPT !.devs = Append(@, arg)]]
    ELSE IF xml_func = "remove"
    THEN UnlinkDevNode(origxml,
                       GetDeviceXmlNodes(origxml, arg.kind, arg.key))
    ELSE IF xml_func = "media"
    THEN (IF arg.newpath = 0
          THEN MediaXmlDisconnect(origxml,
                   GetDeviceXmlNodes(origxml, "disk", arg.key))
          ELSE MediaXmlConnect(origxml,
                   GetDeviceXmlNodes(origxml, "disk", arg.key), arg.newpath))
    ELSE IF xml_func = "param"
    THEN ChangeDiskParam(origxml, GetDeviceXmlNodes(origxml, "disk", arg.key),
                         arg.name, arg.val)
    ELSE [exc |-> FALSE, doc |-> origxml]

\* the state after a fetch with the document the fetch returned
Fetched(s1, field) == [s |-> s1, doc |-> s1[field]]

\* mutant: the base is the active document, as cached
GetXmlToDefineFromActive(s, e) == Fetched(GetXml(s, e), "xml")

\* get_xml_to_define: [s, doc]
GetXmlToDefine(s, e) ==
    IF IsActive(e) THEN Fetched(GetInactiveXml(s, e), "inactive_xml")
    ELSE Fetched(GetXml(InvalidateXml(s), e), "xml")

\* mutant: the new xml is compared with the base as fetched
RedefineUnchangedRaw(fetched, origxml, newxml) == fetched = newxml

\* "if origxml == newxml", origxml being the sanitized base
RedefineUnchanged(fetched, origxml, newxml) == origxml = newxml

\* mutant: a rejected submission invalidates the cache as well
DefineInvalidatingAlways(s1, e, newxml) ==
    IF e.definefail THEN Raise(InvalidateXml(s1), "libvirtError")
    ELSE InvalidateXml([s1 EXCEPT !.submitted = Append(@, newxml)])

\* mutant: the cache is kept after the submission
DefineKeepingCache(s1, e, newxml) ==
    IF e.definefail THEN Raise(s1, "libvirtError")
    ELSE [s1 EXCEPT !.submitted = Append(@, newxml)]

\* redefine, lines 298-301: self._define(newxml), then _invalidate_xml
Define(s1, e, newxml) ==
    IF e.definefail THEN Raise(s1, "libvirtError")
    ELSE InvalidateXml([s1 EXCEPT !.submitted = Append(@, newxml)])

\* redefine, lines 284-301: b is the base as fetched, new what xml_func made
\* of the sanitized base origxml
RedefineWith(b, e, origxml, new) ==
    IF new.exc THEN Raise(b.s, "CouldNotFindDevice")
    ELSE IF RedefineUnchanged(b.doc, origxml, new.doc) THEN b.s
    ELSE Define(Log(b.s, "define"), e, new.doc)

\* redefine, lines 282-284
RedefineFrom(b, e, xml_func, arg) ==
    IF Raised(b.s) THEN b.s
    ELSE RedefineWith(b, e, Serialize(b.doc),
                      Transform(xml_func, Serialize(b.doc), arg))

\* redefine(xml_func, *args)
Redefine(s, e, xml_func, arg) ==
    RedefineFrom(GetXmlToDefine(s, e), e, xml_func, arg)

\* mutant: a device missing from the inactive XML is always an error
PresentInActiveNever(doc, dev_type, dev_id_info) == FALSE

\* mutant: the second lookup never fails
PresentInActiveAlways(doc, dev_type, dev_id_info) == TRUE

\* the second lookup of check_device_is_present, in the active XML
PresentInActive(doc, dev_type, dev_id_info) ==
    GetDeviceXmlNodes(doc, dev_type, dev_id_info) # <<>>

\* check_device_is_present, lines 334-339: [s, present]; s2 is the state
\* after get_xml.  The bare "except:" turns every failure of get_xml and of
\* the lookup into the first lookup's error.
CheckInActiveXml(s2, dev_type, dev_id_info) ==
    IF Raised(s2)
    THEN [s |-> [s2 EXCEPT !.exc = "CouldNotFindDevice"], present |-> FALSE]
    ELSE IF PresentInActive(s2.xml, dev_type, dev_id_info)
         THEN [s |-> s2, present |-> FALSE]
         ELSE [s |-> Raise(s2, "CouldNotFindDevice"), present |-> FALSE]

\* check_device_is_present, lines 327-339: s1 is the state after
\* _get_inactive_xml
CheckInInactiveXml(s1, e, dev_type, dev_id_info) ==
    IF GetDeviceXmlNodes(s1.inactive_xml, dev_type, dev_id_info) # <<>>
    THEN [s |-> s1, present |-> TRUE]
    ELSE CheckInActiveXml(GetXml(s1, e), dev_type, dev_id_info)

\* check_device_is_present: [s, present]
CheckDeviceIsPresent(s, e, dev_type, dev_id_info) ==
    CheckInInactiveXml(GetInactiveXml(s, e), e, dev_type, dev_id_info)

\* remove_device after "if not self.check_device_is_present(..): return"
RemoveChecked(c, e, dev_type, dev_id_info) ==
    IF Raised(c.s) \/ ~c.present THEN c.s
    ELSE Redefine(c.s, e, "remove", Node(dev_type, dev_id_info, FALSE))

\* remove_device(dev_type, dev_id_info)
RemoveDevice(s, e, dev_type, dev_id_info) ==
    RemoveChecked(CheckDeviceIsPresent(s, e, dev_type, dev_id_info), e,
                  dev_type, dev_id_info)

\* add_device(devxml)
AddDevice(s, e, dev) == Redefine(s, e, "add", dev)

\* the disk editors after
\* "if not self.check_device_is_present("disk", dev_id_info): return"
DefineChecked(c, e, xml_func, arg) ==
    IF Raised(c.s) \/ ~c.present THEN c.s
    ELSE Redefine(c.s, e, xml_func, arg)

\* define_cdrom_media(dev_id_info, newpath, _type)
DefineCdromMedia(s, e, dev_id_info, newpath) ==
    DefineChecked(CheckDeviceIsPresent(s, e, "disk", dev_id_info), e, "media",
                  [key |-> dev_id_info, newpath |-> newpath])

\* define_disk_readonly(dev_id_info, do_readonly)
DefineDiskReadonly(s, e, dev_id_info, do_readonly) ==
    DefineChecked(CheckDeviceIsPresent(s, e, "disk", dev_id_info), e, "param",
                  [key |-> dev_id_info, name |-> "readonly",
                   val |-> do_readonly])

\* define_disk_shareable(dev_id_info, do_shareable)
DefineDiskShareable(s, e, dev_id_info, do_shareable) ==
    DefineChecked(CheckDeviceIsPresent(s, e, "disk", dev_id_info), e, "param",
                  [key |-> dev_id_info, name |-> "shareable",
                   val |-> do_shareable])

-----------------------------------------------------------------------------
(* Chart vectors: read-only views of the history *)

\* float arithmetic of the vector helpers
RAdd(a, b) == [n |-> a.n * b.d + b.n * a.d, d |-> a.d * b.d]
RDiv(a, b) == Rat(a.n * b.d, a.d * b.n)
REq(a, b) == a.n * b.d = b.n * a.d

\* _vector_helper(record_name) with histlen = get_stats_history_length()
VectorHelper(s, record_name, histlen) ==
    [i \in 1..(histlen + 1) |->
        IF i <= Len(s.record) THEN RDiv(s.record[i][record_name], RInt(100))
        ELSE RInt(0)]

\* one half of _in_out_vector_helper: the loop over the history for name n
InOutHalf(s, n, ceil, histlen) ==
    [i \in 1..(histlen + 1) |->
        IF i <= Len(s.record) THEN RDiv(s.record[i][n], ceil) ELSE RInt(0)]

\* _in_out_vector_helper(name1, name2)
InOutVectorHelper(s, name1, name2, histlen) ==
    InOutHalf(s, name1, RMax(s.maxRecord[name1], s.maxRecord[name2]), histlen)
        \o InOutHalf(s, name2, RMax(s.maxRecord[name1], s.maxRecord[name2]),
                     histlen)

\* "[l, limit][l > limit]"
InOutEnd(l, limit) == IF l > limit THEN limit ELSE l

\* mutant: the two halves are not cut before they are paired
InOutCutNever(data, l, limit) == data

\* "if l > limit: data = data[0:end] + data[l:l+end]"
InOutCut(data, l, limit) ==
    IF l > limit
    THEN SubSeq(data, 1, InOutEnd(l, limit))
             \o SubSeq(data, l + 1, l + InOutEnd(l, limit))
    ELSE data

\* "map(lambda x,y: (x + y)/2, data[0:end], data[end:end*2])"
InOutPairs(data, end) ==
    [i \in 1..end |-> RDiv(RAdd(data[i], data[end + i]), RInt(2))]

\* in_out_vector_limit(data, limit)
InOutVectorLimit(data, limit) ==
    InOutPairs(InOutCut(data, Len(data) \div 2, limit),
               InOutEnd(Len(data) \div 2, limit))

\* mutant: the vector is returned at its full length
CutToLimitNever(cpudata, limit) == cpudata

\* "if len(cpudata) > limit: cpudata = cpudata[0:limit]"
CutToLimit(cpudata, limit) ==
    IF Len(cpudata) > limit THEN SubSeq(cpudata, 1, limit) ELSE cpudata

\* cpu_time_vector_limit, network_traffic_vector_limit, disk_io_vector_limit
CpuTimeVectorLimit(s, limit, histlen) ==
    CutToLimit(VectorHelper(s, "cpuTimePercent", histlen), limit)
NetworkTrafficVectorLimit(s, limit, histlen) ==
    InOutVectorLimit(InOutVectorHelper(s, "netRxRate", "netTxRate", histlen),
                     limit)
DiskIoVectorLimit(s, limit, histlen) ==
    InOutVectorLimit(InOutVectorHelper(s, "diskRdRate", "diskWrRate",
                                       histlen), limit)

-----------------------------------------------------------------------------
(* Hotplug: attach_device, detach_device *)

\* "self._backend.attachDevice(xml)" / "self._backend.detachDevice(xml)":
\* the live instance is handed the fragment, and may reject it
BackendLive(s, call, devxml, fails) ==
    IF fails
    THEN Raise([Log(s, call) EXCEPT !.live = Append(@, devxml)], "libvirtError")
    ELSE [Log(s, call) EXCEPT !.live = Append(@, devxml)]

\* mutant: the fragment is handed over whether or not the machine runs
AttachDeviceAlways(s, e, devxml, fails) ==
    BackendLive(s, "attachDevice", devxml, fails)

\* attach_device
AttachDevice(s, e, devxml, fails) ==
    IF IsActive(e) THEN BackendLive(s, "attachDevice", devxml, fails) ELSE s

\* detach_device
DetachDevice(s, e, devxml, fails) ==
    IF IsActive(e) THEN BackendLive(s, "detachDevice", devxml, fails) ELSE s

-----------------------------------------------------------------------------
(* Device listings and addressing by identity.  An attribute value is a    *)
(* number, 0 standing for None: the attribute, or the element that carries *)
(* it, is absent.  An input node carries @type and @bus, a video node the  *)
(* @type, @vram and @heads of its <model>, a host device node its @type    *)
(* and what its <source> holds: address, vendor and product, each [has,    *)
(* ...] with has telling whether the element is there.  The nodes of the   *)
(* other kinds carry their one addressing attribute as key.                *)

InputNode(typ, bus) ==
    [kind |-> "input", key |-> 0, tdev |-> FALSE, children |-> <<>>,
     type |-> typ, bus |-> bus]
VideoNode(model, ram, heads) ==
    [kind |-> "video", key |-> 0, tdev |-> FALSE, children |-> <<>>,
     model |-> model, vram |-> ram, heads |-> heads]
NoAddress ==
    [has |-> FALSE, bus |-> 0, device |-> 0, domain |-> 0, slot |-> 0,
     function |-> 0]
Address(bus, device, domain, slot, function) ==
    [has |-> TRUE, bus |-> bus, device |-> device, domain |-> domain,
     slot |-> slot, function |-> function]
NoIdElement == [has |-> FALSE, id |-> 0]
IdElement(id) == [has |-> TRUE, id |-> id]
HostdevNode(typ, address, vendor, product) ==
    [kind |-> "hostdev", key |-> 0, tdev |-> FALSE, children |-> <<>>,
     type |-> typ, address |-> address, vendor |-> vendor,
     product |-> product]

\* the "unique" dictionary of a host device row, and the dev_id_info of a
\* caller: has is FALSE where the dictionary lacks the key
HostdevIdentity(typ, address, vendor, product) ==
    [type |-> typ, address |-> address, vendor |-> vendor,
     product |-> product]

\* _get_device_xml_xpath, lines 1561-1602, for "hostdev": [exc, by], by
\* naming the attributes the query compares.  An address dictionary made
\* by the listing has its five keys and is true for "if addr:".
HostdevXPath(id) ==
    IF id.address.has
    THEN IF id.address.bus # 0 /\ id.address.device # 0
         THEN [exc |-> "", by |-> "bus-device"]
         ELSE IF /\ id.address.bus # 0
                 /\ id.address.slot # 0
                 /\ id.address.function # 0
                 /\ id.address.domain # 0
         THEN [exc |-> "", by |-> "bus-slot-function-domain"]
         ELSE [exc |-> "CouldNotBuildXPath", by |-> ""]
    ELSE IF ~id.vendor.has THEN [exc |-> "AttributeError", by |-> ""]
    ELSE IF id.vendor.id = 0 THEN [exc |-> "CouldNotBuildXPath", by |-> ""]
    ELSE IF ~id.product.has THEN [exc |-> "AttributeError", by |-> ""]
    ELSE IF id.product.id = 0 THEN [exc |-> "CouldNotBuildXPath", by |-> ""]
    ELSE [exc |-> "", by |-> "vendor-product"]

\* the predicate of the host device query on a node; the values compared
\* are not None where by names them
HostdevMatches(node, id, by) ==
    /\ id.type # 0
    /\ node.type = id.type
    /\ IF by = "bus-device"
       THEN /\ node.address.has
            /\ node.address.bus = id.address.bus
            /\ node.address.device = id.address.device
       ELSE IF by = "bus-slot-function-domain"
       THEN /\ node.address.has
            /\ node.address.bus = id.address.bus
            /\ node.address.slot = id.address.slot
            /\ node.address.function = id.address.function
            /\ node.address.domain = id.address.domain
       ELSE /\ node.vendor.has
            /\ node.vendor.id = id.vendor.id
            /\ node.product.has
            /\ node.product.id = id.product.id

\* the predicate of the video query, lines 1604-1613: vram and heads are
\* compared only when the identity has them; None is formatted as "None"
VideoMatches(node, id) ==
    /\ id[1] # 0
    /\ node.model = id[1]
    /\ id[2] # 0 => node.vram = id[2]
    /\ id[3] # 0 => node.heads = id[3]

\* the predicate of the input query, lines 1544-1547
InputMatches(node, id) ==
    /\ id[1] # 0
    /\ id[2] # 0
    /\ node.type = id[1]
    /\ node.bus = id[2]

\* the kinds _get_device_xml_xpath knows
AddressedByOneAttribute ==
    {"interface", "disk", "graphics", "sound", "parallel", "console",
     "serial"}
KnownDeviceTypes == AddressedByOneAttribute \cup {"input", "hostdev", "video"}

\* _get_device_xml_xpath: the exception it raises, "" for none
XPathError(dev_type, dev_id_info) ==
    IF dev_type \notin KnownDeviceTypes THEN "UnknownDeviceType"
    ELSE IF dev_type = "hostdev" THEN HostdevXPath(dev_id_info).exc
    ELSE ""

\* ctx.xpathEval of the query "...[1]": the first node of the kind that
\* satisfies the predicate, or none
XPathFirstMatching(devs, dev_type, dev_id_info) ==
    LET hits == SelectSeq(NodesOfKind(devs, dev_type, 1),
                    LAMBDA i :
                        IF dev_type = "hostdev"
                        THEN HostdevMatches(devs[i], dev_id_info,
                                            HostdevXPath(dev_id_info).by)
                        ELSE IF dev_type = "video"
                        THEN VideoMatches(devs[i], dev_id_info)
                        ELSE IF dev_type = "input"
                        THEN InputMatches(devs[i], dev_id_info)
                        ELSE dev_id_info # 0 /\ devs[i].key = dev_id_info)
    IN IF hits = <<>> THEN <<>> ELSE <<hits[1]>>

\* _get_device_xml_nodes for every kind: [exc, nodes]
DeviceXmlNodes(doc, dev_type, dev_id_info) ==
    IF XPathError(dev_type, dev_id_info) # ""
    THEN [exc |-> XPathError(dev_type, dev_id_info), nodes |-> <<>>]
    ELSE IF XPathFirstMatching(doc.devs, dev_type, dev_id_info) = <<>>
    THEN [exc |-> "CouldNotFindDevice", nodes |-> <<>>]
    ELSE [exc |-> "",
          nodes |-> WithConsole(dev_type,
                        XPathFirstMatching(doc.devs, dev_type, dev_id_info),
                        IF dev_type = "serial"
                        THEN XPathFirstMatching(doc.devs, "console",
                                                dev_id_info)
                        ELSE <<>>)]

\* get_device_xml(dev_type, dev_id_info): the state after it
GetDeviceXmlLookup(s1, dev_type, dev_id_info) ==
    IF Raised(s1) THEN s1
    ELSE IF DeviceXmlNodes(s1.xml, dev_type, dev_id_info).exc # ""
    THEN Raise(s1, DeviceXmlNodes(s1.xml, dev_type, dev_id_info).exc)
    ELSE s1
GetDeviceXml(s, e, dev_type, dev_id_info) ==
    GetDeviceXmlLookup(GetXml(s, e), dev_type, dev_id_info)

\* the rows [kind, key, node] a listing makes of the nodes idx, node being
\* the place in the document of the node a row was made from
Rows(doc, idx, KeyOf(_)) ==
    [j \in 1..Len(idx) |->
        [kind |-> doc.devs[idx[j]].kind, key |-> KeyOf(doc.devs[idx[j]]),
         node |-> idx[j]]]

\* a listing that returned rows, and one that raised
Listed(rows) == [exc |-> "", rows |-> rows]
ListingRaised(exc) == [exc |-> exc, rows |-> <<>>]

SingleKey(node) == node.key

\* get_disk_devices: "missing destination device" without a target dev
\* (every disk of the documents has a source path or is a cdrom or floppy)
GetDiskDevices(doc) ==
    IF \E i \in 1..Len(doc.devs) :
           doc.devs[i].kind = "disk" /\ doc.devs[i].key = 0
    THEN ListingRaised("RuntimeError")
    ELSE Listed(Rows(doc, NodesOfKind(doc.devs, "disk", 1), SingleKey))

\* get_network_devices: the interfaces that have a MAC
GetNetworkDevices(doc) ==
    Listed(Rows(doc, SelectSeq(NodesOfKind(doc.devs, "interface", 1),
                               LAMBDA i : doc.devs[i].key # 0),
                SingleKey))

\* get_input_devices: 'typ + ":" + bus' is a TypeError on None
InputKey(node) == <<node.type, node.bus>>
GetInputDevices(doc) ==
    IF \E i \in 1..Len(doc.devs) :
           /\ doc.devs[i].kind = "input"
           /\ (doc.devs[i].type = 0 \/ doc.devs[i].bus = 0)
    THEN ListingRaised("TypeError")
    ELSE Listed(Rows(doc, NodesOfKind(doc.devs, "input", 1), InputKey))

\* get_graphics_devices and get_sound_devices
GetGraphicsDevices(doc) ==
    Listed(Rows(doc, NodesOfKind(doc.devs, "graphics", 1), SingleKey))
GetSoundDevices(doc) ==
    Listed(Rows(doc, NodesOfKind(doc.devs, "sound", 1), SingleKey))

\* get_char_devices, lines 1349-1387: the last console is kept aside and
\* listed after the parallel and serial devices unless a serial device has
\* its port
ConsoleKeptAside(doc) ==
    IF NodesOfKind(doc.devs, "console", 1) = <<>> THEN <<>>
    ELSE <<NodesOfKind(doc.devs, "console", 1)[
               Len(NodesOfKind(doc.devs, "console", 1))]>>
ConsoleIsDuplicate(doc, cons) ==
    /\ doc.devs[cons].key # 0
    /\ \E i \in 1..Len(doc.devs) :
           doc.devs[i].kind = "serial" /\ doc.devs[i].key = doc.devs[cons].key
CharDeviceNodes(doc, cons) ==
    NodesOfKind(doc.devs, "parallel", 1) \o NodesOfKind(doc.devs, "serial", 1)
        \o (IF cons # <<>> /\ ~ConsoleIsDuplicate(doc, cons[1]) THEN cons
            ELSE <<>>)
GetCharDevices(doc) ==
    Listed(Rows(doc, CharDeviceNodes(doc, ConsoleKeptAside(doc)), SingleKey))

\* get_video_devices: the row's key is [model, ram, heads]
VideoKey(node) == <<node.model, node.vram, node.heads>>
GetVideoDevices(doc) ==
    Listed(Rows(doc, NodesOfKind(doc.devs, "video", 1), VideoKey))

\* get_hostdev_devices, lines 1473-1497: a device is listed when it has a
\* vendor and a product id, or an address with bus and device, or one with
\* bus, slot, function and domain
HostdevHasSourceInfo(node) ==
    \/ node.vendor.id # 0 /\ node.product.id # 0
    \/ node.address.bus # 0 /\ node.address.device # 0
    \/ /\ node.address.bus # 0
       /\ node.address.slot # 0
       /\ node.address.function # 0
       /\ node.address.domain # 0
HostdevKey(node) ==
    HostdevIdentity(node.type, node.address, node.vendor, node.product)
\* "hwlabel = typ.upper()" is an AttributeError on None
GetHostdevDevices(doc) ==
    IF \E i \in 1..Len(doc.devs) :
           doc.devs[i].kind = "hostdev" /\ doc.devs[i].type = 0
    THEN ListingRaised("AttributeError")
    ELSE Listed(Rows(doc, SelectSeq(NodesOfKind(doc.devs, "hostdev", 1),
                              LAMBDA i : HostdevHasSourceInfo(doc.devs[i])),
                     HostdevKey))

\* the get_X_devices functions
DeviceListings ==
    {"disk", "interface", "input", "graphics", "sound", "char", "video",
     "hostdev"}
GetDevices(doc, listing) ==
    IF listing = "disk" THEN GetDiskDevices(doc)
    ELSE IF listing = "interface" THEN GetNetworkDevices(doc)
    ELSE IF listing = "input" THEN GetInputDevices(doc)
    ELSE IF listing = "graphics" THEN GetGraphicsDevices(doc)
    ELSE IF listing = "sound" THEN GetSoundDevices(doc)
    ELSE IF listing = "char" THEN GetCharDevices(doc)
    ELSE IF listing = "video" THEN GetVideoDevices(doc)
    ELSE GetHostdevDevices(doc)

\* _parse_device_xml with refresh_if_necc: the state after a listing call
ParseDeviceXmlParsed(s1, listing) ==
    IF Raised(s1) THEN s1
    ELSE IF GetDevices(s1.xml, listing).exc # ""
    THEN Raise(s1, GetDevices(s1.xml, listing).exc)
    ELSE s1
ParseDeviceXml(s, e, listing) == ParseDeviceXmlParsed(GetXml(s, e), listing)

-----------------------------------------------------------------------------
(* Memory hotplug *)

\* _get_record_helper: the field of the newest sample, 0 with no sample
GetRecordHelper(s, record_name) ==
    IF Len(s.record) = 0 THEN 0 ELSE s.record[1][record_name]

\* get_memory and maximum_memory
GetMemory(s) == GetRecordHelper(s, "currMem")
MaximumMemory(s) == GetRecordHelper(s, "maxMem")

\* _backend.setMemory(value) or _backend.setMaxMemory(value)
BackendSet(s, call, value) ==
    [s EXCEPT !.memcalls = Append(@, [call |-> call, value |-> value])]

\* hotplug_memory: "if memory != self.get_memory()"
HotplugMemory(s, memory) ==
    IF memory # GetMemory(s) THEN BackendSet(s, "setMemory", memory) ELSE s

\* hotplug_maxmem: "if maxmem != self.maximum_memory()"
HotplugMaxmem(s, maxmem) ==
    IF maxmem # MaximumMemory(s) THEN BackendSet(s, "setMaxMemory", maxmem)
    ELSE s

\* hotplug_both_mem: "if memory:" is false of 0
HotplugBothMem(s, e, memory, maxmem) ==
    IF ~IsActive(e) THEN s
    ELSE IF memory = 0 THEN HotplugMaxmem(s, maxmem)
    ELSE IF maxmem < GetMemory(s)
    THEN HotplugMaxmem(HotplugMemory(s, memory), maxmem)
    ELSE HotplugMemory(HotplugMaxmem(s, maxmem), memory)

-----------------------------------------------------------------------------
(* The hypervisor's answers during one method call *)

\* conn: connection.get_state() is STATE_ACTIVE; id: _backend.ID();
\* st, maxmem, mem, vcpus, cpu: _backend.info(); adoc, idoc: XMLDesc without
\* and with VIR_DOMAIN_XML_INACTIVE; blk, net: blockStats, interfaceStats;
\* wall: time.time(); definefail: define_domain raises;
\* histlen: config.get_stats_history_length(); caps: the XMLDesc flags the
\* connection reports as supported, all of them unless a call says otherwise
Env(conn, id, st, cpu, maxmem, adoc, idoc, blk, net, wall, fail, histlen) ==
    [conn |-> conn, id |-> id, st |-> st, cpu |-> cpu, maxmem |-> maxmem,
     mem |-> 1, vcpus |-> 1, adoc |-> adoc, idoc |-> idoc,
     blk |-> blk, net |-> net, wall |-> wall, definefail |-> fail,
     histlen |-> histlen, caps |-> AllDomFlags]

Ok(a, b) == [err |-> "ok", a |-> a, b |-> b]
NoSupport == [err |-> "nosupport", a |-> 0, b |-> 0]
OtherError == [err |-> "error", a |-> 0, b |-> 0]

\* the documents the hypervisor serves
DocA == Doc(1, <<Node("disk", 1, FALSE), Node("interface", 1, TRUE),
                 Node("serial", 1, FALSE), Node("serial", 2, FALSE),
                 Node("console", 1, FALSE)>>)
DocB == Doc(1, <<Node("disk", 1, FALSE), Node("interface", 1, TRUE),
                 Node("serial", 1, FALSE), Node("console", 2, FALSE)>>)
DocC == Doc(0, <<Node("disk", 1, FALSE), Node("interface", 1, FALSE)>>)
Docs == {DocA, DocB, DocC}

\* the devices the callers address
Targets == {Node("serial", 1, FALSE), Node("serial", 2, FALSE),
            Node("disk", 1, FALSE)}

-----------------------------------------------------------------------------
(* Actions: one per method *)

Commit(r) ==
    /\ lastStatus' = r.lastStatus
    /\ record' = r.record
    /\ maxRecord' = r.maxRecord
    /\ xml' = r.xml
    /\ inactive_xml' = r.inactive_xml
    /\ is_xml_valid' = r.is_xml_valid
    /\ network_traffic' = r.network_traffic
    /\ disk_io' = r.disk_io
    /\ stats_net_supported' = r.stats_net_supported
    /\ stats_disk_supported' = r.stats_disk_supported

\* the state __init__ leaves: the first _update_status has stored a status,
\* the toggles have chosen the samplers from the configuration
InitWith(statuses, samplers) ==
    /\ lastStatus \in statuses
    /\ record = <<>>
    /\ maxRecord = [diskRdRate |-> RInt(InitialMaxRate),
                    diskWrRate |-> RInt(InitialMaxRate),
                    netTxRate |-> RInt(InitialMaxRate),
                    netRxRate |-> RInt(InitialMaxRate)]
    /\ xml = NoDoc
    /\ inactive_xml = NoDoc
    /\ is_xml_valid = FALSE
    /\ network_traffic \in samplers
    /\ disk_io \in samplers
    /\ stats_net_supported = TRUE
    /\ stats_disk_supported = TRUE

\* the calls, as functions of the current state
TickOf(e, now) == Tick(Cur, e, now)
GetXmlOf(e) == GetXml(Cur, e)
GetXmlNoRefreshOf(e) == GetXmlNoRefresh(Cur, e)
GetInactiveXmlOf(e) == GetInactiveXml(Cur, e)
UpdateStatusOf(e) == UpdateStatusFromInfo(Cur, e)
RedefineIdentityOf(e) == Redefine(Cur, e, "identity", NoDoc)
AddDeviceOf(e, dev) == AddDevice(Cur, e, dev)
RemoveDeviceOf(e, dev) == RemoveDevice(Cur, e, dev.kind, dev.key)
DefineCdromMediaOf(e, key, newpath) == DefineCdromMedia(Cur, e, key, newpath)
DefineDiskReadonlyOf(e, key, v) == DefineDiskReadonly(Cur, e, key, v)
DefineDiskShareableOf(e, key, v) == DefineDiskShareable(Cur, e, key, v)
ParseDeviceXmlOf(e, listing) == ParseDeviceXml(Cur, e, listing)
GetDeviceXmlOf(e, dev_type, dev_id_info) ==
    GetDeviceXml(Cur, e, dev_type, dev_id_info)
AttachDeviceOf(e, devxml, fails) == AttachDevice(Cur, e, devxml, fails)
DetachDeviceOf(e, devxml, fails) == DetachDevice(Cur, e, devxml, fails)
ToggleNetOf(e, enabled) == ToggleSampleNetworkTraffic(Cur, e, enabled)
ToggleDiskOf(e, enabled) == ToggleSampleDiskIo(Cur, e, enabled)
HotplugBothMemOf(e, memory, maxmem) == HotplugBothMem(Cur, e, memory, maxmem)

-----------------------------------------------------------------------------
(* Spec: the configuration cache and the redefine engine, driven with the  *)
(* documents above; the sampler runs on constant counters and on the       *)
(* timestamps 1 and MaxTime.                                               *)

CfgTimes == {1, MaxTime}

\* an inactive domain has id -1, is shut off and has one document
CfgInactive(d, w, f) ==
    Env(TRUE, 0 - 1, VIR_DOMAIN_SHUTOFF, 0, 2, d, d, <<Ok(0, 0)>>,
        <<Ok(0, 0)>>, w, f, HistLen)
CfgActive(st, a, i, w, f) ==
    Env(TRUE, 1, st, 1, 2, a, i, <<Ok(0, 0)>>, <<Ok(0, 0)>>, w, f, HistLen)
\* the connection is not in its active state
CfgDisconnected == [CfgActive(VIR_DOMAIN_RUNNING, DocA, DocA, 1, FALSE)
                        EXCEPT !.conn = FALSE]

\* answers for the calls that read the active document only
CfgReadEnvs ==
    {CfgInactive(d, w, FALSE) : d \in Docs, w \in CfgTimes}
    \cup {CfgActive(VIR_DOMAIN_RUNNING, d, d, w, FALSE) :
              d \in Docs, w \in CfgTimes}
\* answers for the calls that read the inactive document only
CfgInactiveReadEnvs ==
    {CfgActive(VIR_DOMAIN_RUNNING, d, d, 1, FALSE) : d \in Docs}
\* answers for the lifecycle calls: any raw state
CfgStatusEnvs ==
    {IF st = VIR_DOMAIN_SHUTOFF THEN CfgInactive(DocA, 1, FALSE)
     ELSE CfgActive(st, DocA, DocA, 1, FALSE) : st \in RawStates}
\* answers for redefine with an xml_func that changes nothing: the base is
\* the inactive document of an active domain, or a fresh fetch
CfgIdentityEnvs ==
    {CfgInactive(d, w, FALSE) : d \in Docs, w \in CfgTimes}
    \cup {CfgActive(VIR_DOMAIN_RUNNING, d, d, 1, FALSE) : d \in Docs}
\* answers for add_device: define_domain may fail
CfgAddEnvs ==
    {CfgInactive(d, w, f) : d \in Docs, w \in CfgTimes, f \in BOOLEAN}
    \cup {CfgActive(VIR_DOMAIN_RUNNING, d, d, 1, f) :
              d \in Docs, f \in BOOLEAN}
\* answers for remove_device: the two documents of an active domain differ
CfgRemoveEnvs ==
    {CfgInactive(d, w, FALSE) : d \in Docs, w \in CfgTimes}
    \cup {CfgInactive(d, 1, TRUE) : d \in Docs}
    \cup {CfgActive(VIR_DOMAIN_RUNNING, p[1], p[2], w, FALSE) :
              p \in Docs \X Docs, w \in CfgTimes}
    \cup {CfgActive(VIR_DOMAIN_RUNNING, p[1], p[2], 1, TRUE) :
              p \in Docs \X Docs}

\* answers for the disk editors, and the disks they address: the documents
\* hold the disk 1 and no disk 2
CfgDiskEnvs ==
    {CfgInactive(d, 1, FALSE) : d \in Docs}
    \cup {CfgActive(VIR_DOMAIN_RUNNING, d, d, 1, FALSE) : d \in Docs}
CfgDiskKeys == {1, 2}

Init == InitWith({VIR_DOMAIN_RUNNING, VIR_DOMAIN_SHUTOFF}, {"sample"})

\* answers for tick
CfgTickEnvs == CfgReadEnvs \cup {CfgDisconnected}

TickCall == \E e \in CfgTickEnvs, now \in CfgTimes : Commit(TickOf(e, now))
\* the flag sets a connection may report as supported
CfgCaps == SUBSET AllDomFlags
WithCaps(e, caps) == [e EXCEPT !.caps = caps]

GetXmlCall == \E e \in CfgReadEnvs : Commit(GetXmlOf(e))
GetXmlNoRefreshCall == \E e \in CfgReadEnvs : Commit(GetXmlNoRefreshOf(e))
GetInactiveXmlCall ==
    \E e \in CfgInactiveReadEnvs, c \in CfgCaps :
        Commit(GetInactiveXmlOf(WithCaps(e, c)))
UpdateStatusCall == \E e \in CfgStatusEnvs : Commit(UpdateStatusOf(e))
RedefineIdentityCall == \E e \in CfgIdentityEnvs : Commit(RedefineIdentityOf(e))
AddDeviceCall ==
    \E e \in CfgAddEnvs : Commit(AddDeviceOf(e, Node("serial", 2, FALSE)))
RemoveDeviceCall ==
    \E e \in CfgRemoveEnvs, dev \in Targets : Commit(RemoveDeviceOf(e, dev))

DefineCdromMediaCall ==
    \E e \in CfgDiskEnvs, key \in CfgDiskKeys, newpath \in {0, 1} :
        Commit(DefineCdromMediaOf(e, key, newpath))
DefineDiskReadonlyCall ==
    \E e \in CfgDiskEnvs, key \in CfgDiskKeys, v \in BOOLEAN :
        Commit(DefineDiskReadonlyOf(e, key, v))
DefineDiskShareableCall ==
    \E e \in CfgDiskEnvs, key \in CfgDiskKeys, v \in BOOLEAN :
        Commit(DefineDiskShareableOf(e, key, v))

AttachDeviceCall ==
    \E e \in CfgDiskEnvs, devxml \in Targets, fails \in BOOLEAN :
        Commit(AttachDeviceOf(e, devxml, fails))
DetachDeviceCall ==
    \E e \in CfgDiskEnvs, devxml \in Targets, fails \in BOOLEAN :
        Commit(DetachDeviceOf(e, devxml, fails))

Next ==
    \/ TickCall
    \/ GetXmlCall
    \/ GetXmlNoRefreshCall
    \/ GetInactiveXmlCall
    \/ UpdateStatusCall
    \/ AttachDeviceCall
    \/ DetachDeviceCall
    \/ RedefineIdentityCall
    \/ AddDeviceCall
    \/ RemoveDeviceCall
    \/ DefineCdromMediaCall
    \/ DefineDiskReadonlyCall
    \/ DefineDiskShareableCall

Spec == Init /\ [][Next]_vars

\* SpecRedef: the calls of Spec that go through the redefine engine, with the
\* reads and ticks that fill and invalidate the cache between them
NextRedef ==
    \/ TickCall
    \/ GetXmlCall
    \/ GetInactiveXmlCall
    \/ UpdateStatusCall
    \/ AddDeviceCall
    \/ RemoveDeviceCall
    \/ DefineCdromMediaCall
    \/ DefineDiskReadonlyCall
    \/ DefineDiskShareableCall

SpecRedef == Init /\ [][NextRedef]_vars

-----------------------------------------------------------------------------
(* SpecStats: the CPU side of the sampler, driven with varying CPU times,  *)
(* domain states and timestamps in any order; disk and network polling are *)
(* switched off in the configuration, so tick fetches no document.         *)

StEnv(id, st, cpu, maxmem, blk, net, wall, histlen) ==
    Env(TRUE, id, st, cpu, maxmem, DocA, DocA, <<blk>>, <<net>>, wall, FALSE,
        histlen)

\* domain id and raw state: a shut-off domain and a running guest
StDomains == {<<0 - 1, VIR_DOMAIN_SHUTOFF>>, <<1, VIR_DOMAIN_RUNNING>>}
StCpuTimes == {1, 3}

StEnvs ==
    {StEnv(d[1], d[2], c, 2, Ok(0, 0), Ok(0, 0), MaxTime, HistLen) :
         d \in StDomains, c \in StCpuTimes}

InitStats == InitWith({VIR_DOMAIN_RUNNING}, {"dummy"})

TickCallStats == \E e \in StEnvs, now \in Times : Commit(TickOf(e, now))
GetXmlStats == \E e \in StEnvs : Commit(GetXmlOf(e))

NextStats ==
    \/ TickCallStats
    \/ GetXmlStats

SpecStats == InitStats /\ [][NextStats]_vars

-----------------------------------------------------------------------------
(* SpecMem: the memory side of the sampler: the management domain (id 0)   *)
(* and a guest, each reporting a small maximum or the sentinel.            *)

MemEnvs ==
    {StEnv(id, VIR_DOMAIN_RUNNING, 1, m, Ok(0, 0), Ok(0, 0), MaxTime,
           HistLen) : id \in {0, 1}, m \in {2, MaxMemSentinel}}

InitMem == InitWith({VIR_DOMAIN_RUNNING}, {"dummy"})

TickMem == \E e \in MemEnvs, now \in Times : Commit(TickOf(e, now))
GetXmlMem == \E e \in MemEnvs : Commit(GetXmlOf(e))

NextMem ==
    \/ TickMem
    \/ GetXmlMem

SpecMem == InitMem /\ [][NextMem]_vars

-----------------------------------------------------------------------------
(* SpecIo: the disk and network side of the sampler on one document (DocA: *)
(* one disk, one polled interface) of a running guest, driven with varying *)
(* counter answers.  The driver's clock advances from tick to tick; the    *)
(* wall clock read by a forced tick is the driver's time or one later.     *)

IoTimes == 1..IoMaxTime

\* the answers to blockStats and interfaceStats
IoCounters ==
    {<<Ok(0, 0), Ok(0, 0)>>, <<Ok(20480, 1024), Ok(1024, 3072)>>,
     <<NoSupport, Ok(1024, 3072)>>, <<Ok(20480, 1024), NoSupport>>,
     <<OtherError, OtherError>>}

IoEnv(k, w) == StEnv(1, VIR_DOMAIN_RUNNING, 1, 2, k[1], k[2], w, IoHistLen)
\* the wall clock is read by a forced tick only, and the calls of this
\* specification run one only while no document is cached
IoWallsAt(now) == IF xml = NoDoc THEN {now, now + 1} ELSE {now}
IoEnvsAt(now) == {IoEnv(k, w) : k \in IoCounters, w \in IoWallsAt(now)}

\* the driver's previous tick is the newest sample
ClockAdvances(now) == IF record = <<>> THEN TRUE ELSE now > record[1].timestamp

InitIo == InitWith({VIR_DOMAIN_RUNNING}, {"sample"})

TickIo ==
    \E now \in IoTimes : \E e \in IoEnvsAt(now) :
        ClockAdvances(now) /\ Commit(TickOf(e, now))
ToggleNetIo ==
    \E e \in IoEnvsAt(IoMaxTime), enabled \in BOOLEAN :
        Commit(ToggleNetOf(e, enabled))
ToggleDiskIo ==
    \E e \in IoEnvsAt(IoMaxTime), enabled \in BOOLEAN :
        Commit(ToggleDiskOf(e, enabled))

NextIo ==
    \/ TickIo
    \/ ToggleNetIo
    \/ ToggleDiskIo

SpecIo == InitIo /\ [][NextIo]_vars

-----------------------------------------------------------------------------
(* SpecAvg: the moving average of a running guest whose CPU counter grows  *)
(* by one or by three per second, on a history longer than the window;     *)
(* disk and network polling are switched off.                              *)

AvgEnv(cpu) ==
    StEnv(1, VIR_DOMAIN_RUNNING, cpu, 2, Ok(0, 0), Ok(0, 0), AvgMaxTime,
          AvgHistLen)
\* the counter values a tick at the time now can read
AvgEnvsAt(now) == {AvgEnv(now), AvgEnv(3 * now)}

InitAvg == InitWith({VIR_DOMAIN_RUNNING}, {"dummy"})

TickAvg ==
    \E now \in 1..AvgMaxTime : \E e \in AvgEnvsAt(now) :
        ClockAdvances(now) /\ Commit(TickOf(e, now))

NextAvg == TickAvg

SpecAvg == InitAvg /\ [][NextAvg]_vars

-----------------------------------------------------------------------------
(* SpecErr: the sampler of a running guest with two disks and two polled   *)
(* interfaces, whose counter queries succeed or fail device by device; the *)
(* clock and the history length are those of SpecIo.                       *)

DocTwo == Doc(1, <<Node("disk", 1, FALSE), Node("disk", 2, FALSE),
                   Node("interface", 1, TRUE), Node("interface", 2, TRUE)>>)

\* the answers to the two queries of a category
ErrAnswers ==
    {<<Ok(2048, 1024), Ok(1024, 3072)>>, <<OtherError, Ok(1024, 3072)>>,
     <<Ok(2048, 1024), OtherError>>, <<OtherError, OtherError>>}

ErrEnv(blk, net, now) ==
    Env(TRUE, 1, VIR_DOMAIN_RUNNING, 1, 2, DocTwo, DocTwo, blk, net, now,
        FALSE, IoHistLen)
\* the disk and the network answers of one tick
ErrPairs ==
    {<<<<Ok(2048, 1024), Ok(1024, 3072)>>, <<Ok(2048, 1024), Ok(1024, 3072)>>>>,
     <<<<OtherError, Ok(1024, 3072)>>, <<Ok(2048, 1024), OtherError>>>>,
     <<<<Ok(2048, 1024), OtherError>>, <<OtherError, OtherError>>>>,
     <<<<OtherError, OtherError>>, <<OtherError, Ok(1024, 3072)>>>>}
ErrEnvsAt(now) == {ErrEnv(p[1], p[2], now) : p \in ErrPairs}

InitErr == InitWith({VIR_DOMAIN_RUNNING}, {"sample"})

TickErr ==
    \E now \in IoTimes : \E e \in ErrEnvsAt(now) :
        ClockAdvances(now) /\ Commit(TickOf(e, now))

NextErr == TickErr

SpecErr == InitErr /\ [][NextErr]_vars

-----------------------------------------------------------------------------
(* SpecAddr: the device listings and the addressing of a device by its     *)
(* kind and identity, on documents whose host devices carry every          *)
(* combination of address, vendor and product.                             *)

\* the values of an attribute: None and one value
AttrValues == {0, 1}
IdElements == {NoIdElement} \cup {IdElement(id) : id \in AttrValues}
Addresses ==
    {NoAddress}
    \cup {Address(b, d, dom, s, f) :
              b \in AttrValues, d \in AttrValues, dom \in AttrValues,
              s \in AttrValues, f \in AttrValues}
\* the identities a caller hands to the addressing of a host device
AddrIdentities ==
    {HostdevIdentity(1, a, v, p) :
         a \in Addresses, v \in IdElements, p \in IdElements}

\* the <address> elements of the documents: none, one of a USB device, one
\* of a PCI device, one with a bus only, one without attributes
AddrDocAddresses ==
    {NoAddress, Address(1, 1, 0, 0, 0), Address(1, 0, 1, 1, 1),
     Address(1, 0, 0, 0, 0), Address(0, 0, 0, 0, 0)}
DocAllKinds ==
    Doc(1, <<Node("disk", 1, FALSE), Node("interface", 1, TRUE),
             Node("interface", 0, FALSE), InputNode(1, 1),
             Node("graphics", 1, FALSE), Node("sound", 1, FALSE),
             Node("parallel", 1, FALSE), Node("serial", 1, FALSE),
             Node("serial", 2, FALSE), Node("console", 1, FALSE),
             VideoNode(1, 1, 0),
             HostdevNode(1, Address(1, 1, 0, 0, 0), NoIdElement,
                         NoIdElement)>>)
DocTwoHostdevs ==
    Doc(1, <<HostdevNode(1, Address(1, 0, 1, 1, 1), NoIdElement, NoIdElement),
             HostdevNode(1, NoAddress, IdElement(1), IdElement(1)),
             Node("console", 2, FALSE), Node("serial", 1, FALSE)>>)
AddrDocs ==
    {Doc(1, <<HostdevNode(1, a, v, p)>>) :
         a \in AddrDocAddresses, v \in IdElements, p \in IdElements}
    \cup {DocAllKinds, DocTwoHostdevs}
AddrEnvs ==
    {CfgActive(VIR_DOMAIN_RUNNING, d, d, w, FALSE) :
         d \in AddrDocs, w \in CfgTimes}
\* the devices get_device_xml is asked for
AddrTargets ==
    {[kind |-> "serial", key |-> 1],
     [kind |-> "hostdev",
      key |-> HostdevIdentity(1, Address(1, 1, 0, 0, 0), NoIdElement,
                              NoIdElement)],
     [kind |-> "hostdev",
      key |-> HostdevIdentity(1, Address(1, 0, 0, 0, 0), IdElement(1),
                              IdElement(1))]}

InitAddr == InitWith({VIR_DOMAIN_RUNNING}, {"sample"})

GetDevicesCall ==
    \E e \in AddrEnvs, listing \in DeviceListings :
        Commit(ParseDeviceXmlOf(e, listing))
GetDeviceXmlCall ==
    \E e \in AddrEnvs, t \in AddrTargets :
        Commit(GetDeviceXmlOf(e, t.kind, t.key))

NextAddr ==
    \/ GetDevicesCall
    \/ GetDeviceXmlCall

SpecAddr == InitAddr /\ [][NextAddr]_vars

-----------------------------------------------------------------------------
(* SpecHist: the history under ticks and under the switching of network    *)
(* and disk polling, of a running guest whose counters stand at zero or    *)
(* have grown; the clock and the history length are those of SpecIo.       *)

HistCounters == {<<Ok(0, 0), Ok(0, 0)>>, <<Ok(20480, 1024), Ok(1024, 3072)>>}
HistEnvsAt(now) == {IoEnv(k, now) : k \in HistCounters}

InitHist == InitWith({VIR_DOMAIN_RUNNING}, {"sample", "dummy"})

TickHist ==
    \E now \in IoTimes : \E e \in HistEnvsAt(now) :
        ClockAdvances(now) /\ Commit(TickOf(e, now))
ToggleNetHist ==
    \E e \in HistEnvsAt(IoMaxTime), enabled \in BOOLEAN :
        Commit(ToggleNetOf(e, enabled))
ToggleDiskHist ==
    \E e \in HistEnvsAt(IoMaxTime), enabled \in BOOLEAN :
        Commit(ToggleDiskOf(e, enabled))

NextHist ==
    \/ TickHist
    \/ ToggleNetHist
    \/ ToggleDiskHist

SpecHist == InitHist /\ [][NextHist]_vars

-----------------------------------------------------------------------------
(* SpecSpike: polling switched on and off on a running machine whose       *)
(* cumulative counters are large and do not move, so that the rate of      *)
(* every interval is zero.                                                 *)

SpikeCounters == <<Ok(20480, 1024), Ok(1024, 3072)>>
SpikeEnvAt(now) == IoEnv(SpikeCounters, now)

InitSpike == InitWith({VIR_DOMAIN_RUNNING}, {"sample", "dummy"})

TickSpike ==
    \E now \in IoTimes :
        ClockAdvances(now) /\ Commit(TickOf(SpikeEnvAt(now), now))
ToggleNetSpike ==
    \E now \in IoTimes, enabled \in BOOLEAN :
        ClockAdvances(now) /\ Commit(ToggleNetOf(SpikeEnvAt(now), enabled))
ToggleDiskSpike ==
    \E now \in IoTimes, enabled \in BOOLEAN :
        ClockAdvances(now) /\ Commit(ToggleDiskOf(SpikeEnvAt(now), enabled))

GetXmlSpike ==
    \E now \in IoTimes :
        ClockAdvances(now) /\ Commit(GetXmlOf(SpikeEnvAt(now)))

NextSpike ==
    \/ TickSpike
    \/ GetXmlSpike
    \/ ToggleNetSpike
    \/ ToggleDiskSpike

SpecSpike == InitSpike /\ [][NextSpike]_vars

-----------------------------------------------------------------------------
(* SpecHotplug: memory hotplug between the ticks of a shut-off domain, of   *)
(* the management domain (id 0) and of a guest, whose current and maximum  *)
(* memory the hypervisor may report differently at every call.             *)

HpMaxMem == 3
\* the backend's current memory never exceeds its maximum
HpBackends == {m \in (1..HpMaxMem) \X (1..HpMaxMem) : m[1] <= m[2]}
HpDomains ==
    {<<0 - 1, VIR_DOMAIN_SHUTOFF>>, <<0, VIR_DOMAIN_RUNNING>>,
     <<1, VIR_DOMAIN_RUNNING>>}
HpEnv(d, m) ==
    [StEnv(d[1], d[2], 1, m[2], Ok(0, 0), Ok(0, 0), MaxTime, HistLen)
     EXCEPT !.mem = m[1]]
HpEnvs == {HpEnv(d, m) : d \in HpDomains, m \in HpBackends}
\* the amounts a caller asks for: up to the host's memory
HpRequests == 0..HostMemorySize

InitHotplug == InitWith({VIR_DOMAIN_RUNNING}, {"dummy"})

TickHotplug ==
    \E e \in HpEnvs, now \in Times \ {0} :
        ClockAdvances(now) /\ Commit(TickOf(e, now))
HotplugBothMemCall ==
    \E e \in HpEnvs, memory \in HpRequests, maxmem \in HpRequests :
        Commit(HotplugBothMemOf(e, memory, maxmem))

NextHotplug ==
    \/ TickHotplug
    \/ HotplugBothMemCall

SpecHotplug == InitHotplug /\ [][NextHotplug]_vars

-----------------------------------------------------------------------------
(* Properties.  A property of a call is stated in every reachable state,   *)
(* for every answer the hypervisor can give to that call from that state.  *)

\* the call made the backend call or queued the notification ev
InLog(r, ev) == \E i \in 1..Len(r.log) : r.log[i] = ev

\* the samples the call added to the history: one per resources-sampled
Produced(r) ==
    Cardinality({i \in 1..Len(r.log) : r.log[i] = "resources-sampled"})

Between0And100(p) == RLeq(RInt(0), p) /\ RLeq(p, RInt(100))

\* the inactive and the active document a call made now would work on
InactiveSeen(e) == IF inactive_xml = NoDoc THEN e.idoc ELSE inactive_xml
ActiveSeen(e) == IF xml = NoDoc \/ ~is_xml_valid THEN e.adoc ELSE xml

\* the document redefine takes as its base
BaseSeen(e) == IF IsActive(e) THEN InactiveSeen(e) ELSE e.adoc

(* ------------------------------ C1 ------------------------------------- *)

\* C1: in every cache state, for an active and for an inactive machine,
\* redefine with an xml_func that returns the document it is given makes no
\* define_domain call: nothing is submitted.
C1_IdentityRedefineSubmitsNothing ==
    \A e \in CfgIdentityEnvs :
        LET r == RedefineIdentityOf(e)
        IN ~InLog(r, "define") /\ r.submitted = <<>>

\* an inactive document the hypervisor formatted is cached, which the
\* sanitizing step rewrites; one identity redefine works on it without a
\* fetch, another fetches the active document of an inactive machine
C1_Witness ==
    /\ inactive_xml # NoDoc
    /\ Serialize(inactive_xml) # inactive_xml
    /\ \E e \in CfgIdentityEnvs :
           LET r == RedefineIdentityOf(e)
           IN IsActive(e) /\ ~Raised(r) /\ r.log = <<>>
    /\ \E e \in CfgIdentityEnvs :
           LET r == RedefineIdentityOf(e)
           IN /\ ~IsActive(e)
              /\ ~Raised(r)
              /\ InLog(r, "XMLDesc")
              /\ Serialize(r.xml) # r.xml

(* ------------------------------ C2 ------------------------------------- *)

C3_CpuPercentInRange ==
    \A i \in 1..Len(record) : Between0And100(record[i].cpuTimePercent)

\* one sample whose CPU time exceeds the elapsed time and one whose CPU
\* time went backwards, both of a running machine
C3_Witness ==
    /\ \E i \in 1..Len(record) :
           /\ record[i].cpuTime > record[i].timestamp
           /\ record[i].cpuTimePercent = RInt(100)
    /\ \E i \in 1..Len(record) :
           /\ record[i].cpuTime < 0
           /\ record[i].cpuTimeAbs > 0
           /\ record[i].cpuTimePercent = RInt(0)

(* ------------------------------ C4 ------------------------------------- *)

\* C4: whatever CPU times, timestamps and lifecycle states tick is given,
\* the cpuTimeMovingAvgPercent of every sample it produces lies in [0, 100].
C4_MovingAvgPercentInRange ==
    \A i \in 1..Len(record) :
        Between0And100(record[i].cpuTimeMovingAvgPercent)

(* ------------------------------ C5 ------------------------------------- *)

\* C5: the diskRdRate, diskWrRate, netRxRate and netTxRate of every sample
\* are never negative, also when a cumulative counter has decreased.
C5_RatesNeverNegative ==
    \A i \in 1..Len(record) :
        \A f \in {"diskRdRate", "diskWrRate", "netRxRate", "netTxRate"} :
            RLeq(RInt(0), record[i][f])

\* the two newest samples show a network counter that went down while time
\* went on, and the tick that reads them stores the rate 0
C5_Witness ==
    /\ Len(record) > 1
    /\ record[1].netRxKB < record[2].netRxKB
    /\ record[1].timestamp > record[2].timestamp
    /\ \E now \in IoTimes : \E e \in IoEnvsAt(now) :
           LET r == TickOf(e, now)
           IN /\ ClockAdvances(now)
              /\ ~Raised(r)
              /\ Produced(r) = 1
              /\ r.record[1].netRxRate = RInt(0)

(* ------------------------------ C6 ------------------------------------- *)

\* C6: once a network (disk) counter query has answered "not supported",
\* no later tick queries the network (disk) counters, every later sample
\* has 0 as its network (disk) counters, and no operation switches the
\* category on again.
C6_UnsupportedStaysOff ==
    /\ \A now \in IoTimes : \A e \in IoEnvsAt(now) :
           LET r == TickOf(e, now)
           IN /\ ~stats_net_supported =>
                     /\ ~InLog(r, "interfaceStats")
                     /\ ~r.stats_net_supported
                     /\ \A i \in 1..Produced(r) :
                            r.record[i].netRxKB = 0 /\ r.record[i].netTxKB = 0
              /\ ~stats_disk_supported =>
                     /\ ~InLog(r, "blockStats")
                     /\ ~r.stats_disk_supported
                     /\ \A i \in 1..Produced(r) :
                            r.record[i].diskRdKB = 0 /\ r.record[i].diskWrKB = 0
    /\ \A e \in IoEnvsAt(IoMaxTime), enabled \in BOOLEAN :
           \A r \in {ToggleNetOf(e, enabled), ToggleDiskOf(e, enabled)} :
               /\ ~stats_net_supported =>
                      ~InLog(r, "interfaceStats") /\ ~r.stats_net_supported
               /\ ~stats_disk_supported =>
                      ~InLog(r, "blockStats") /\ ~r.stats_disk_supported

\* network counters are off; a tick to which the hypervisor would answer
\* with network traffic still polls the disk and stores no network traffic
C6_Witness ==
    /\ ~stats_net_supported
    /\ network_traffic = "sample"
    /\ \E now \in IoTimes : \E e \in IoEnvsAt(now) :
           LET r == TickOf(e, now)
           IN /\ ClockAdvances(now)
              /\ e.net[1].err = "ok"
              /\ e.net[1].a > 0
              /\ Produced(r) = 1
              /\ InLog(r, "blockStats")
              /\ r.record[1].diskRdKB > 0
              /\ r.record[1].netRxKB = 0

(* ------------------------------ C7 ------------------------------------- *)

\* C7: remove_device on a device that is absent from the inactive document
\* but present in the active document returns normally and makes no
\* define_domain call.
C7_RemoveOfLiveOnlyDeviceReturns ==
    \A e \in CfgRemoveEnvs, dev \in Targets :
        LET r == RemoveDeviceOf(e, dev)
        IN (/\ GetDeviceXmlNodes(InactiveSeen(e), dev.kind, dev.key) = <<>>
            /\ GetDeviceXmlNodes(ActiveSeen(e), dev.kind, dev.key) # <<>>)
               => ~Raised(r) /\ ~InLog(r, "define") /\ r.submitted = <<>>

(* ------------------------------ C8 ------------------------------------- *)

\* the nodes of a document other than the serial device at a port and the
\* console at that port
OtherThanSerialAndConsole(devs, port) ==
    SelectSeq(devs, LAMBDA n : ~(n.kind \in {"serial", "console"}
                                    /\ n.key = port))

\* C8: the document remove_device submits for a serial device is the base
\* document without the serial node at that port and without the console
\* node at that port, if there is one; every other node is kept, in order.
C8_SerialRemovalTakesItsConsole ==
    \A e \in CfgRemoveEnvs, dev \in Targets :
        LET r == RemoveDeviceOf(e, dev)
        IN (dev.kind = "serial" /\ r.submitted # <<>>)
               => /\ Len(r.submitted) = 1
                  /\ r.submitted[1].devs =
                         OtherThanSerialAndConsole(BaseSeen(e).devs, dev.key)

\* one removal takes a serial node with its console from the cached inactive
\* document, another a serial node alone while a console at another port
\* stays
C8_Witness ==
    /\ inactive_xml # NoDoc
    /\ \E e \in CfgRemoveEnvs, dev \in Targets :
           LET r == RemoveDeviceOf(e, dev)
           IN /\ dev.kind = "serial"
              /\ IsActive(e)
              /\ r.submitted # <<>>
              /\ XPathFirst(BaseSeen(e).devs, "console", dev.key) # <<>>
              /\ Len(r.submitted[1].devs) = Len(BaseSeen(e).devs) - 2
    /\ \E e \in CfgRemoveEnvs, dev \in Targets :
           LET r == RemoveDeviceOf(e, dev)
           IN /\ dev.kind = "serial"
              /\ r.submitted # <<>>
              /\ XPathFirst(BaseSeen(e).devs, "console", dev.key) = <<>>
              /\ NodesOfKind(r.submitted[1].devs, "console", 1) # <<>>
              /\ Len(r.submitted[1].devs) = Len(BaseSeen(e).devs) - 1

(* ------------------------------ C9 ------------------------------------- *)

\* the next inactive read after the call fetches the document afresh
NextInactiveReadFetches(r) ==
    \A e2 \in CfgInactiveReadEnvs :
        LET r2 == GetInactiveXml([r EXCEPT !.log = <<>>], e2)
        IN r2.log = <<"XMLDescInactive">> /\ r2.inactive_xml = e2.idoc

\* C9: when a status update (by itself or at the end of a tick) finds the
\* normalized state changed and the stored state was shutdown, shut off or
\* crashed, the cached inactive document is dropped and the next inactive
\* read fetches it from the hypervisor.
C9_StartDropsInactiveXml ==
    /\ \A e \in CfgStatusEnvs :
           LET r == UpdateStatusOf(e)
           IN (/\ lastStatus \in {VIR_DOMAIN_SHUTDOWN, VIR_DOMAIN_SHUTOFF,
                                  VIR_DOMAIN_CRASHED}
               /\ r.lastStatus # lastStatus)
                  => r.inactive_xml = NoDoc /\ NextInactiveReadFetches(r)
    /\ \A e \in CfgTickEnvs, now \in CfgTimes :
           LET r == TickOf(e, now)
           IN (/\ lastStatus \in {VIR_DOMAIN_SHUTDOWN, VIR_DOMAIN_SHUTOFF,
                                  VIR_DOMAIN_CRASHED}
               /\ r.lastStatus # lastStatus)
                  => r.inactive_xml = NoDoc /\ NextInactiveReadFetches(r)

\* an inactive document is cached for a machine stored as shutdown or
\* crashed, and a status update finds it running
C9_Witness ==
    /\ inactive_xml # NoDoc
    /\ lastStatus \in {VIR_DOMAIN_SHUTDOWN, VIR_DOMAIN_CRASHED}
    /\ \E e \in CfgStatusEnvs :
           LET r == UpdateStatusOf(e)
           IN /\ r.lastStatus = VIR_DOMAIN_RUNNING
              /\ InLog(r, "status-changed")
              /\ r.inactive_xml = NoDoc

(* ------------------------------ C10 ------------------------------------ *)

\* C10: every sample a tick produces for the domain with id 0 has the
\* host's memory size as its maxMem, whatever maximum the hypervisor
\* reported, and the percentage derived from it is 100.
C10_Dom0MaxMemIsHostMemory ==
    /\ \A e \in MemEnvs, now \in Times :
           LET r == TickOf(e, now)
           IN e.id = 0 =>
                  \A i \in 1..Produced(r) :
                      /\ r.record[i].maxMem = HostMemorySize
                      /\ r.record[i].maxMemPercent = Rat(100 * HostMemorySize,
                                                         HostMemorySize)
    /\ \A e \in MemEnvs :
           LET r == GetXmlOf(e)
           IN e.id = 0 =>
                  \A i \in 1..Produced(r) : r.record[i].maxMem = HostMemorySize

\* the newest sample holds the host's memory size, and the hypervisor
\* reports the sentinel for the domain with id 0 to a tick that stores a
\* sample
C10_Witness ==
    /\ record # <<>>
    /\ record[1].maxMem = HostMemorySize
    /\ \E e \in MemEnvs, now \in Times :
           LET r == TickOf(e, now)
           IN /\ e.id = 0
              /\ e.maxmem = MaxMemSentinel
              /\ Produced(r) = 1
              /\ r.record[1].maxMem = HostMemorySize
              /\ e.maxmem # HostMemorySize

(* ------------------------------ C11 ------------------------------------ *)

\* product of two rationals, used to state what a chart entry is
RTimes(a, b) == [n |-> a.n * b.n, d |-> a.d * b.d]

\* the entries of the CPU chart v: entry i is the cpuTimePercent of the
\* i-th newest sample over 100, and 0 beyond the samples held
CpuEntriesNewestFirst(v) ==
    \A i \in 1..Len(v) :
        IF i <= Len(record)
        THEN REq(RTimes(v[i], RInt(100)), record[i].cpuTimePercent)
        ELSE v[i].n = 0

\* the entries of an in/out chart v: entry i is the mean of the two rates
\* of the i-th newest sample over the larger of the two running maxima,
\* and 0 beyond the samples held
InOutEntriesNewestFirst(v, name1, name2) ==
    \A i \in 1..Len(v) :
        IF i <= Len(record)
        THEN REq(RTimes(RTimes(v[i], RInt(2)),
                        RMax(maxRecord[name1], maxRecord[name2])),
                 RAdd(record[i][name1], record[i][name2]))
        ELSE v[i].n = 0

ChartsNewestFirst(limit) ==
    /\ CpuEntriesNewestFirst(CpuTimeVectorLimit(Cur, limit, IoHistLen))
    /\ InOutEntriesNewestFirst(
           NetworkTrafficVectorLimit(Cur, limit, IoHistLen),
           "netRxRate", "netTxRate")
    /\ InOutEntriesNewestFirst(DiskIoVectorLimit(Cur, limit, IoHistLen),
                               "diskRdRate", "diskWrRate")

ChartsHaveLength(limit, len) ==
    /\ Len(CpuTimeVectorLimit(Cur, limit, IoHistLen)) = len
    /\ Len(NetworkTrafficVectorLimit(Cur, limit, IoHistLen)) = len
    /\ Len(DiskIoVectorLimit(Cur, limit, IoHistLen)) = len

\* C11 as stated: for every requested length L the three chart vectors
\* have exactly L entries, read newest-first from the history, with 0 in
\* every position beyond the samples held.
C11_ChartsHaveRequestedLength ==
    \A limit \in 0..MaxLimit :
        ChartsHaveLength(limit, limit) /\ ChartsNewestFirst(limit)

\* C11 amended: with history length N the three chart vectors have L
\* entries when L <= N + 1 and N + 1 entries otherwise, read newest-first
\* from the history, with 0 in every position beyond the samples held.
C11_ChartsHaveAtMostRequestedLength ==
    \A limit \in 0..MaxLimit :
        /\ ChartsHaveLength(limit, IF limit <= IoHistLen + 1 THEN limit
                                   ELSE IoHistLen + 1)
        /\ ChartsNewestFirst(limit)

\* a history whose second sample has a network rate, charted with a limit
\* that cuts the vectors and with one beyond the N + 1 entries there are
C11_Witness ==
    /\ Len(record) > IoHistLen
    /\ record[2].netRxRate.n > 0
    /\ record[2].netTxRate.n > 0
    /\ Len(NetworkTrafficVectorLimit(Cur, IoHistLen, IoHistLen)) = IoHistLen
    /\ NetworkTrafficVectorLimit(Cur, IoHistLen, IoHistLen)[2].n > 0
    /\ MaxLimit > IoHistLen + 1
    /\ Len(NetworkTrafficVectorLimit(Cur, MaxLimit, IoHistLen))
           = IoHistLen + 1

(* ------------------------------ C12 ------------------------------------ *)

\* q is the quotient of the Python 2 integer division num / den, den > 0
IsIntQuotient(q, num, den) == q * den <= num /\ num < q * den + den

\* the smaller of two numbers
Smaller(a, b) == IF a < b THEN a ELSE b

NextGetXmlFetches(r) ==
    \A e2 \in {CfgInactive(DocC, 1, FALSE),
               CfgActive(VIR_DOMAIN_RUNNING, DocB, DocB, 1, FALSE)} :
        LET r2 == GetXml([r EXCEPT !.log = <<>>], e2)
        IN r2.log # <<>> /\ r2.log[1] = "XMLDesc" /\ r2.xml = e2.adoc

\* what C13 promises of the state r a redefine call returned with
CacheDropped(r) ==
    (~Raised(r) /\ r.submitted # <<>>)
        => /\ ~r.is_xml_valid
           /\ r.inactive_xml = NoDoc
           /\ NextGetXmlFetches(r)
           /\ NextInactiveReadFetches(r)

\* C13: after a redefine (here through add_device and remove_device) has
\* submitted a changed document successfully, the cached active document is
\* marked invalid and the cached inactive document is dropped, so the next
\* get_xml and the next inactive read each fetch from the hypervisor.
C13_RedefineInvalidatesCache ==
    /\ \A e \in CfgAddEnvs :
           CacheDropped(AddDeviceOf(e, Node("serial", 2, FALSE)))
    /\ \A e \in CfgRemoveEnvs, dev \in Targets :
           CacheDropped(RemoveDeviceOf(e, dev))

\* both documents are cached and valid, and add_device on the active
\* machine submits a document without fetching any
C13_Witness ==
    /\ xml # NoDoc
    /\ is_xml_valid
    /\ inactive_xml # NoDoc
    /\ \E e \in CfgAddEnvs :
           LET r == AddDeviceOf(e, Node("serial", 2, FALSE))
           IN /\ IsActive(e)
              /\ ~Raised(r)
              /\ r.log = <<"define">>
              /\ Len(r.submitted) = 1
              /\ r.xml = xml
              /\ ~r.is_xml_valid
              /\ r.inactive_xml = NoDoc

(* ------------------------------ C14 ------------------------------------ *)

\* the call r ended with the collaborator's rejection of the document
Rejected(r) == r.exc = "libvirtError"

\* C14 as stated: when define_domain rejects the document redefine submits
\* (here through add_device), the error reaches the caller unmodified and
\* the active document, the validity flag and the inactive document are
\* what they were before the call, for an active and an inactive machine.
C14_RejectedRedefineLeavesCacheAsBefore ==
    \A e \in CfgAddEnvs :
        LET r == AddDeviceOf(e, Node("serial", 2, FALSE))
        IN Rejected(r) => /\ r.xml = xml
                          /\ r.is_xml_valid = is_xml_valid
                          /\ r.inactive_xml = inactive_xml

\* C14 amended: a call whose submission define_domain would reject ends
\* with an error; when it ends with the rejection (and not with an error
\* of the fetch of the base), nothing is submitted and the cache is as the
\* fetch of the base left it.  Active machine: the active document and the
\* validity flag are as before the call, the inactive document is the one
\* cached before or, if there was none, the one fetched in the call.
\* Inactive machine: the inactive document is dropped, the active document
\* is the one fetched in the call, and it is marked valid exactly when it
\* equals the document cached before.
C14_RejectedRedefineKeepsFetchedBase ==
    \A e \in CfgAddEnvs :
        LET r == AddDeviceOf(e, Node("serial", 2, FALSE))
        IN /\ e.definefail => Raised(r)
           /\ Rejected(r)
               => /\ r.submitted = <<>>
                  /\ IF IsActive(e)
                     THEN /\ r.xml = xml
                          /\ r.is_xml_valid = is_xml_valid
                          /\ r.inactive_xml = InactiveSeen(e)
                     ELSE /\ r.xml = e.adoc
                          /\ r.is_xml_valid = (xml = e.adoc)
                          /\ r.inactive_xml = NoDoc

\* both documents are cached and valid; a rejected add_device on the active
\* machine leaves them, and one on the inactive machine drops the inactive
\* document and fetches another active one
C14_Witness ==
    /\ xml # NoDoc
    /\ is_xml_valid
    /\ inactive_xml # NoDoc
    /\ \E e \in CfgAddEnvs :
           LET r == AddDeviceOf(e, Node("serial", 2, FALSE))
           IN /\ IsActive(e)
              /\ Rejected(r)
              /\ r.log = <<"define">>
              /\ r.is_xml_valid
              /\ r.inactive_xml = inactive_xml
    /\ \E e \in CfgAddEnvs :
           LET r == AddDeviceOf(e, Node("serial", 2, FALSE))
           IN /\ ~IsActive(e)
              /\ Rejected(r)
              /\ r.xml # xml
              /\ r.inactive_xml = NoDoc

(* ------------------------------ C15 ------------------------------------ *)

\* answers in which the two documents of an active machine may differ
BaseEnvs ==
    {CfgInactive(d, 1, FALSE) : d \in Docs}
    \cup {CfgActive(VIR_DOMAIN_RUNNING, p[1], p[2], 1, FALSE) :
              p \in Docs \X Docs}

\* C15: the document redefine (here through add_device) submits is its
\* base with the device appended, and the base is, for an active machine,
\* the inactive document (cached, or fetched in the call), never the active
\* one, and for an inactive machine the document the hypervisor answers
\* with during the call, never the one cached before.
C15_BaseIsInactiveOrFresh ==
    \A e \in BaseEnvs :
        LET r == AddDeviceOf(e, Node("serial", 2, FALSE))
        IN ~Raised(r)
               => /\ Len(r.submitted) = 1
                  /\ r.submitted[1].devs
                         = Append((IF IsActive(e)
                                   THEN (IF inactive_xml = NoDoc THEN e.idoc
                                         ELSE inactive_xml)
                                   ELSE e.adoc).devs,
                                  Node("serial", 2, FALSE))

\* a valid active document is cached; add_device on an active machine
\* whose inactive document holds other devices submits a document that is
\* not the cached active one with the device appended, and add_device on
\* an inactive machine submits one that is not derived from the cache
C15_Witness ==
    /\ xml # NoDoc
    /\ is_xml_valid
    /\ \E e \in BaseEnvs :
           LET r == AddDeviceOf(e, Node("serial", 2, FALSE))
           IN /\ IsActive(e)
              /\ e.adoc = xml
              /\ ~Raised(r)
              /\ Len(r.submitted) = 1
              /\ r.submitted[1].devs
                     # Append(xml.devs, Node("serial", 2, FALSE))
    /\ \E e \in BaseEnvs :
           LET r == AddDeviceOf(e, Node("serial", 2, FALSE))
           IN /\ ~IsActive(e)
              /\ ~Raised(r)
              /\ Len(r.submitted) = 1
              /\ r.submitted[1].devs
                     # Append(xml.devs, Node("serial", 2, FALSE))

(* ------------------------------ C16 ------------------------------------ *)

\* the device is in neither document the call works on
AbsentFromBoth(e, kind, key) ==
    /\ GetDeviceXmlNodes(InactiveSeen(e), kind, key) = <<>>
    /\ GetDeviceXmlNodes(ActiveSeen(e), kind, key) = <<>>

\* the call r failed with the lookup's error before any submission
FailedInLookup(r) ==
    r.exc = "CouldNotFindDevice" /\ r.submitted = <<>> /\ ~InLog(r, "define")

\* C16: remove_device, define_cdrom_media, define_disk_readonly and
\* define_disk_shareable on a device that is absent from the inactive and
\* from the active document fail with the "Could not find device" error of
\* the lookup in the inactive document and make no define_domain call.
C16_AbsentDeviceFailsWithoutSubmission ==
    /\ \A e \in CfgRemoveEnvs, dev \in Targets :
           AbsentFromBoth(e, dev.kind, dev.key)
               => FailedInLookup(RemoveDeviceOf(e, dev))
    /\ \A e \in CfgDiskEnvs, key \in CfgDiskKeys :
           AbsentFromBoth(e, "disk", key)
               => /\ \A newpath \in {0, 1} :
                         FailedInLookup(DefineCdromMediaOf(e, key, newpath))
                  /\ \A v \in BOOLEAN :
                         /\ FailedInLookup(DefineDiskReadonlyOf(e, key, v))
                         /\ FailedInLookup(DefineDiskShareableOf(e, key, v))

\* the history holds a sample, so that a forced tick can fail; a
\* remove_device finds the serial device in neither document after fetching
\* both, and a define_disk_readonly finds no disk 2
C16_Witness ==
    /\ record # <<>>
    /\ \E e \in CfgRemoveEnvs, dev \in Targets :
           LET r == RemoveDeviceOf(e, dev)
           IN /\ AbsentFromBoth(e, dev.kind, dev.key)
              /\ InLog(r, "XMLDescInactive")
              /\ InLog(r, "XMLDesc")
              /\ r.exc = "CouldNotFindDevice"
    /\ \E e \in CfgDiskEnvs :
           LET r == DefineDiskReadonlyOf(e, 2, TRUE)
           IN /\ AbsentFromBoth(e, "disk", 2)
              /\ r.exc = "CouldNotFindDevice"
              /\ r.submitted = <<>>

(* ------------------------------ C17 ------------------------------------ *)

\* the number of queries named call the call r made
Queries(r, call) == Cardinality({i \in 1..Len(r.log) : r.log[i] = call})

\* a query of the two failed with an error other than "not supported"
SomeOtherError(answers) == \E i \in 1..2 : answers[i].err = "error"

\* the first (n = 1) or second (n = 2) counter of the devices that answered
OkSum(answers, n) ==
    (IF answers[1].err = "ok" THEN answers[1][IF n = 1 THEN "a" ELSE "b"]
     ELSE 0)
    + (IF answers[2].err = "ok" THEN answers[2][IF n = 1 THEN "a" ELSE "b"]
       ELSE 0)

\* the tick after the call r queries each of the two devices of the
\* category again
NextTickQueries(r, now, call) ==
    \A k \in ErrAnswers :
        Queries(Tick([r EXCEPT !.log = <<>>], ErrEnv(k, k, now + 1), now + 1),
                call) = 2

\* C17 as stated: when a counter query for a device fails with an error
\* other than "not supported", the sample of that tick has zero for the
\* category's counters, the category stays enabled and the next tick
\* queries it again.
C17_OtherErrorReportsZero ==
    \A now \in IoTimes : \A e \in ErrEnvsAt(now) :
        LET r == TickOf(e, now)
        IN (ClockAdvances(now) /\ ~Raised(r))
               => /\ SomeOtherError(e.net)
                      => /\ r.record[1].netRxKB = 0
                         /\ r.record[1].netTxKB = 0
                         /\ r.stats_net_supported
                  /\ SomeOtherError(e.blk)
                      => /\ r.record[1].diskRdKB = 0
                         /\ r.record[1].diskWrKB = 0
                         /\ r.stats_disk_supported

\* C17 amended: a device whose counter query fails with an error other
\* than "not supported" adds nothing to the category's counters of that
\* tick: the sample holds the sum over the devices that answered (zero when
\* none did), in KB; the category stays enabled and the next tick queries
\* every device of it again.
C17_OtherErrorSkipsTheDevice ==
    \A now \in IoTimes : \A e \in ErrEnvsAt(now) :
        LET r == TickOf(e, now)
        IN (ClockAdvances(now) /\ ~Raised(r))
               => /\ r.record[1].netRxKB = OkSum(e.net, 1) \div BytesPerKB
                  /\ r.record[1].netTxKB = OkSum(e.net, 2) \div BytesPerKB
                  /\ r.record[1].diskRdKB = OkSum(e.blk, 1) \div BytesPerKB
                  /\ r.record[1].diskWrKB = OkSum(e.blk, 2) \div BytesPerKB
                  /\ r.stats_net_supported /\ r.stats_disk_supported
                  /\ r.network_traffic = "sample" /\ r.disk_io = "sample"
                  /\ Queries(r, "interfaceStats") = 2
                  /\ Queries(r, "blockStats") = 2
                  /\ now < IoMaxTime
                         => /\ NextTickQueries(r, now, "interfaceStats")
                            /\ NextTickQueries(r, now, "blockStats")

\* the history holds a sample with counters; in a tick the query of the
\* first interface fails and the second answers, so the sample is not zero,
\* and both disk queries fail, so the sample is zero
C17_Witness ==
    /\ record # <<>>
    /\ record[1].netRxKB > 0
    /\ \E now \in IoTimes : \E e \in ErrEnvsAt(now) :
           LET r == TickOf(e, now)
           IN /\ ClockAdvances(now)
              /\ ~Raised(r)
              /\ e.net[1].err = "error"
              /\ e.net[2].err = "ok"
              /\ r.record[1].netRxKB > 0
              /\ e.blk[1].err = "error"
              /\ e.blk[2].err = "error"
              /\ r.record[1].diskRdKB = 0
              /\ r.stats_disk_supported

(* ------------------------------ C18 ------------------------------------ *)

\* the number of times the call r queued the notification ev
Queued(r, ev) == Cardinality({i \in 1..Len(r.log) : r.log[i] = ev})

\* the call r queued each notification at most once
EachQueuedAtMostOnce(r) ==
    \A ev \in {"status-changed", "config-changed", "resources-sampled"} :
        Queued(r, ev) <= 1

\* C18: within one tick invoked by the driver, one configuration read
\* (get_xml, inactive read) and one redefine call (here through
\* add_device), each of status-changed, config-changed and
\* resources-sampled is queued at most once.
C18_EachNotificationAtMostOnce ==
    /\ \A e \in CfgTickEnvs, now \in CfgTimes :
           EachQueuedAtMostOnce(TickOf(e, now))
    /\ \A e \in CfgReadEnvs : EachQueuedAtMostOnce(GetXmlOf(e))
    /\ \A e \in CfgInactiveReadEnvs : EachQueuedAtMostOnce(GetInactiveXmlOf(e))
    /\ \A e \in CfgAddEnvs :
           EachQueuedAtMostOnce(AddDeviceOf(e, Node("serial", 2, FALSE)))

(* ------------------------------ C19 ------------------------------------ *)

FetchedActive(r) == InLog(r, "XMLDesc")

\* C20: get_xml_no_refresh fetches the active document if and only if none
\* has been fetched yet; get_xml fetches if and only if none has been
\* fetched yet or the cache is marked invalid; a call that does not fetch
\* returns the cached document, makes no backend call and changes no field.
C20_ReadPolicy ==
    \A e \in CfgReadEnvs :
        /\ FetchedActive(GetXmlNoRefreshOf(e)) <=> (xml = NoDoc)
        /\ xml # NoDoc => GetXmlNoRefreshOf(e) = Cur
        /\ FetchedActive(GetXmlOf(e)) <=> (xml = NoDoc \/ ~is_xml_valid)
        /\ (xml # NoDoc /\ is_xml_valid) => GetXmlOf(e) = Cur

\* a document is cached and marked invalid, and the hypervisor holds
\* another: get_xml_no_refresh returns the cached one without a fetch,
\* get_xml fetches the new one
C20_Witness ==
    /\ xml # NoDoc
    /\ ~is_xml_valid
    /\ \E e \in CfgReadEnvs :
           /\ e.adoc # xml
           /\ GetXmlNoRefreshOf(e).log = <<>>
           /\ GetXmlNoRefreshOf(e).xml = xml
           /\ FetchedActive(GetXmlOf(e))
           /\ GetXmlOf(e).xml = e.adoc

(* ------------------------------ C21 ------------------------------------ *)

\* an inactive read after the call r, whatever the hypervisor would answer,
\* fetches nothing, changes nothing and returns the document r returned
NextInactiveReadIsCached(r) ==
    \A e2 \in CfgInactiveReadEnvs :
        GetInactiveXml([r EXCEPT !.log = <<>>], e2) = [r EXCEPT !.log = <<>>]

\* C21: an inactive read fetches from the hypervisor if and only if no
\* inactive document is cached, with exactly one fetch; the reads that
\* follow it with no invalidation in between fetch nothing and return the
\* same document.
C21_InactiveReadFetchesOnce ==
    \A e \in CfgInactiveReadEnvs :
        LET r == GetInactiveXmlOf(e)
        IN /\ r.log = (IF inactive_xml = NoDoc THEN <<"XMLDescInactive">>
                       ELSE <<>>)
           /\ r.inactive_xml = (IF inactive_xml = NoDoc THEN e.idoc
                                ELSE inactive_xml)
           /\ NextInactiveReadIsCached(r)

\* an active document is cached and no inactive one; the read fetches the
\* inactive document, and a second read, to which the hypervisor would
\* answer with another document, returns the first
C21_Witness ==
    /\ xml # NoDoc
    /\ inactive_xml = NoDoc
    /\ \E e \in CfgInactiveReadEnvs, e2 \in CfgInactiveReadEnvs :
           LET r == GetInactiveXmlOf(e)
               r2 == GetInactiveXml([r EXCEPT !.log = <<>>], e2)
           IN /\ r.log = <<"XMLDescInactive">>
              /\ e2.idoc # e.idoc
              /\ r2.log = <<>>
              /\ r2.inactive_xml = e.idoc

(* ------------------------------ C22 ------------------------------------ *)

\* the call r ran a tick: tick starts with get_info()
TickForced(r) == InLog(r, "info")

\* C22: a get_xml that fetches the active document queues one
\* config-changed notification and forces a tick when the fetched document
\* differs from the one cached before (no cached document counts as a
\* difference), and queues no notification and forces no tick when the two
\* are equal.
C22_FetchNotifiesExactlyOnChange ==
    \A e \in CfgReadEnvs :
        LET r == GetXmlOf(e)
        IN FetchedActive(r)
               => IF e.adoc # xml
                  THEN Queued(r, "config-changed") = 1 /\ TickForced(r)
                  ELSE Queued(r, "config-changed") = 0 /\ ~TickForced(r)

(* ------------------------------ C23 ------------------------------------ *)

\* C23: the stored lifecycle state is always one of running, paused,
\* shutting down, shut off and crashed, never the raw no-state or blocked
\* code, and a status update that reads no-state or blocked stores running.
C23_StoredStatusIsNormalized ==
    /\ lastStatus \in {VIR_DOMAIN_RUNNING, VIR_DOMAIN_PAUSED,
                       VIR_DOMAIN_SHUTDOWN, VIR_DOMAIN_SHUTOFF,
                       VIR_DOMAIN_CRASHED}
    /\ \A e \in CfgStatusEnvs :
           e.st \in {VIR_DOMAIN_NOSTATE, VIR_DOMAIN_BLOCKED}
               => UpdateStatusOf(e).lastStatus = VIR_DOMAIN_RUNNING

\* the machine is stored as paused, and status updates that read blocked
\* and no-state store running
C23_Witness ==
    /\ lastStatus = VIR_DOMAIN_PAUSED
    /\ \E e \in CfgStatusEnvs :
           /\ e.st = VIR_DOMAIN_BLOCKED
           /\ UpdateStatusOf(e).lastStatus = VIR_DOMAIN_RUNNING
    /\ \E e \in CfgStatusEnvs :
           /\ e.st = VIR_DOMAIN_NOSTATE
           /\ UpdateStatusOf(e).lastStatus = VIR_DOMAIN_RUNNING

(* ------------------------------ C24 ------------------------------------ *)

\* C24: a status update queues a status-changed notification if and only
\* if the normalized state it read differs from the stored state, the
\* notification carries that normalized state, which is the state stored;
\* with running stored, the raw codes no-state, blocked and running queue
\* nothing.
C24_StatusChangedOnNormalizedChange ==
    \A e \in CfgStatusEnvs :
        LET r == UpdateStatusOf(e)
            new == IF e.st \in {VIR_DOMAIN_NOSTATE, VIR_DOMAIN_BLOCKED}
                   THEN VIR_DOMAIN_RUNNING ELSE e.st
        IN /\ r.lastStatus = new
           /\ IF new # lastStatus
              THEN Queued(r, "status-changed") = 1 /\ r.carried = <<new>>
              ELSE Queued(r, "status-changed") = 0 /\ r.carried = <<>>
           /\ (/\ lastStatus = VIR_DOMAIN_RUNNING
               /\ e.st \in {VIR_DOMAIN_NOSTATE, VIR_DOMAIN_BLOCKED,
                            VIR_DOMAIN_RUNNING})
                  => Queued(r, "status-changed") = 0

\* the machine is stored as crashed; an update that reads blocked queues a
\* notification carrying running, and one that reads crashed queues none
C24_Witness ==
    /\ lastStatus = VIR_DOMAIN_CRASHED
    /\ \E e \in CfgStatusEnvs :
           /\ e.st = VIR_DOMAIN_BLOCKED
           /\ UpdateStatusOf(e).carried = <<VIR_DOMAIN_RUNNING>>
    /\ \E e \in CfgStatusEnvs :
           /\ e.st = VIR_DOMAIN_CRASHED
           /\ UpdateStatusOf(e).log = <<"info">>

(* ------------------------------ C25 ------------------------------------ *)

\* the call r left the cached documents and the validity flag as they were
\* and submitted no definition
CacheAndDefinitionUntouched(r) ==
    /\ r.xml = xml
    /\ r.is_xml_valid = is_xml_valid
    /\ r.inactive_xml = inactive_xml
    /\ ~InLog(r, "define")
    /\ r.submitted = <<>>

\* C25: attach_device and detach_device never call define_domain and never
\* change the cached active document, its validity flag or the cached
\* inactive document; on an active machine they hand the given fragment to
\* the live instance in exactly one attach (detach) call, and on an
\* inactive machine they hand it nothing.
C25_HotplugBypassesRedefine ==
    \A e \in CfgDiskEnvs, devxml \in Targets, fails \in BOOLEAN :
        LET a == AttachDeviceOf(e, devxml, fails)
            d == DetachDeviceOf(e, devxml, fails)
        IN /\ CacheAndDefinitionUntouched(a)
           /\ CacheAndDefinitionUntouched(d)
           /\ IF IsActive(e)
              THEN /\ a.log = <<"attachDevice">> /\ a.live = <<devxml>>
                   /\ d.log = <<"detachDevice">> /\ d.live = <<devxml>>
              ELSE /\ a.log = <<>> /\ a.live = <<>>
                   /\ d.log = <<>> /\ d.live = <<>>

\* both documents are cached and valid; a running machine is handed the
\* fragment and a shut off one is not
C25_Witness ==
    /\ xml # NoDoc
    /\ is_xml_valid
    /\ inactive_xml # NoDoc
    /\ \E e \in CfgDiskEnvs, devxml \in Targets :
           /\ IsActive(e)
           /\ AttachDeviceOf(e, devxml, FALSE).live = <<devxml>>
           /\ DetachDeviceOf(e, devxml, TRUE).live = <<devxml>>
    /\ \E e \in CfgDiskEnvs, devxml \in Targets :
           /\ ~IsActive(e)
           /\ AttachDeviceOf(e, devxml, FALSE).log = <<>>

(* ------------------------------ C26 ------------------------------------ *)

\* the rate between the sample at position i and the sample before it
RateOverPreceding(rec, i, what) ==
    FloorRate(Rat(rec[i][what] - rec[i + 1][what],
                  rec[i].timestamp - rec[i + 1].timestamp))

\* C26: for disk read, disk write, network rx and network tx, the rate
\* stored in a sample equals max(0, (its cumulative KB - the preceding
\* sample's cumulative KB) / (its timestamp - the preceding sample's
\* timestamp)).
C26_RateIsOverPrecedingSample ==
    \A i \in 1..(Len(record) - 1) :
        record[i].timestamp # record[i + 1].timestamp
            => /\ REq(record[i].diskRdRate,
                       RateOverPreceding(record, i, "diskRdKB"))
               /\ REq(record[i].diskWrRate,
                       RateOverPreceding(record, i, "diskWrKB"))
               /\ REq(record[i].netRxRate,
                       RateOverPreceding(record, i, "netRxKB"))
               /\ REq(record[i].netTxRate,
                       RateOverPreceding(record, i, "netTxKB"))

(* ------------------------------ C27 ------------------------------------ *)

\* the device listing returned rows over the document, and addressing the
\* document with the kind and key of each row finds the node of that row
RowsAreAddressable(doc, listing) ==
    \A j \in 1..Len(GetDevices(doc, listing).rows) :
        LET row == GetDevices(doc, listing).rows[j]
            found == DeviceXmlNodes(doc, row.kind, row.key)
        IN found.exc = "" /\ found.nodes[1] = row.node

\* C27: for every row a device listing (disk, network interface, input,
\* graphics, sound, console/serial/parallel, video, host device) returns
\* over a document, addressing the same document with the row's kind and
\* unique key locates that device's node and does not fail.
C27_ListedDevicesAreAddressable ==
    xml # NoDoc => \A listing \in DeviceListings :
                       RowsAreAddressable(xml, listing)

(* ------------------------------ C28 ------------------------------------ *)

\* the identity has a positional address that can be used: bus and device,
\* or bus, slot, function and domain
UsableAddress(id) ==
    /\ id.address.has
    /\ id.address.bus # 0
    /\ \/ id.address.device # 0
       \/ /\ id.address.slot # 0
          /\ id.address.function # 0
          /\ id.address.domain # 0

\* the identity has a vendor id and a product id
VendorProductPair(id) ==
    /\ id.vendor.has
    /\ id.vendor.id # 0
    /\ id.product.has
    /\ id.product.id # 0

\* the node has the positional address of the identity
AddressMatch(node, id) ==
    /\ node.type = id.type
    /\ node.address.has
    /\ node.address.bus = id.address.bus
    /\ IF id.address.device # 0
       THEN node.address.device = id.address.device
       ELSE /\ node.address.slot = id.address.slot
            /\ node.address.function = id.address.function
            /\ node.address.domain = id.address.domain

\* the node has the vendor id and the product id of the identity
VendorProductMatch(node, id) ==
    /\ node.type = id.type
    /\ node.vendor.has
    /\ node.vendor.id = id.vendor.id
    /\ node.product.has
    /\ node.product.id = id.product.id

\* the lookup found the first host device of the document that satisfies
\* Match, or failed to find one
FindsFirst(doc, found, Match(_)) ==
    /\ found.exc \in {"", "CouldNotFindDevice"}
    /\ found.nodes = (LET hits == SelectSeq(NodesOfKind(doc.devs, "hostdev", 1),
                                            LAMBDA i : Match(doc.devs[i]))
                      IN IF hits = <<>> THEN <<>> ELSE <<hits[1]>>)

\* C28: a host device identity is matched by its positional address (bus
\* and device, or bus, slot, function and domain) when it has one, and
\* otherwise by vendor id and product id; the "could not build the query"
\* error is raised exactly when the identity has neither a usable address
\* nor a vendor and product pair.
C28_HostdevAddressing ==
    xml # NoDoc =>
        \A id \in AddrIdentities :
            LET found == DeviceXmlNodes(xml, "hostdev", id)
            IN /\ UsableAddress(id)
                      => FindsFirst(xml, found,
                                    LAMBDA node : AddressMatch(node, id))
               /\ (~UsableAddress(id) /\ VendorProductPair(id))
                      => FindsFirst(xml, found,
                                    LAMBDA node : VendorProductMatch(node, id))
               /\ (found.exc = "CouldNotBuildXPath")
                      <=> (~UsableAddress(id) /\ ~VendorProductPair(id))

(* ------------------------------ C29 ------------------------------------ *)

\* C29: the history is ordered newest first: the timestamps of its samples
\* do not increase from the front to the back, the driver's ticks being
\* handed increasing times and the wall clock a forced tick reads being
\* the driver's time or later.
C29_HistoryNewestFirst ==
    \A i \in 1..(Len(record) - 1) :
        record[i].timestamp >= record[i + 1].timestamp

(* ------------------------------ C30 ------------------------------------ *)

\* the history new is the history old with k samples added at the front
\* and samples discarded at the back, no sample of old having changed
KeepsSamples(old, new, k) ==
    /\ k <= Len(new)
    /\ Len(new) - k <= Len(old)
    /\ \A i \in 1..(Len(new) - k) : new[k + i] = old[i]

\* the same, but for the fields f1 and f2 of the newest sample of new
KeepsSamplesButNewest(old, new, k, f1, f2) ==
    /\ k <= Len(new)
    /\ Len(new) - k <= Len(old)
    /\ \A i \in 1..(Len(new) - k) :
           IF k + i = 1
           THEN [new[1] EXCEPT ![f1] = old[1][f1], ![f2] = old[1][f2]] = old[1]
           ELSE new[k + i] = old[i]

\* C30 as stated: under every operation, the switching of network and disk
\* polling included, the history changes only by a sample being added at
\* the front or by samples being discarded at the back; no field of a
\* stored sample changes.
C30_SamplesNeverChange ==
    /\ \A now \in IoTimes : \A e \in HistEnvsAt(now) :
           LET r == TickOf(e, now)
           IN KeepsSamples(record, r.record, Produced(r))
    /\ \A e \in HistEnvsAt(IoMaxTime), enabled \in BOOLEAN :
           LET n == ToggleNetOf(e, enabled)
               d == ToggleDiskOf(e, enabled)
           IN /\ KeepsSamples(record, n.record, Produced(n))
              /\ KeepsSamples(record, d.record, Produced(d))

\* C30, amended: a tick, forced or not, changes the history only by adding
\* its sample at the front and discarding the oldest samples.  Switching
\* network (disk) polling on while more than one sample is held rewrites
\* netRxKB and netTxKB (diskRdKB and diskWrKB) of the newest sample; no
\* other field of a stored sample changes, and every other switching
\* leaves the history as it is.
C30_OnlyResamplingRewritesNewest ==
    /\ \A now \in IoTimes : \A e \in HistEnvsAt(now) :
           LET r == TickOf(e, now)
           IN KeepsSamples(record, r.record, Produced(r))
    /\ \A e \in HistEnvsAt(IoMaxTime), enabled \in BOOLEAN :
           LET n == ToggleNetOf(e, enabled)
               d == ToggleDiskOf(e, enabled)
           IN IF enabled /\ Len(record) > 1
              THEN /\ KeepsSamplesButNewest(record, n.record, Produced(n),
                                            "netRxKB", "netTxKB")
                   /\ KeepsSamplesButNewest(record, d.record, Produced(d),
                                            "diskRdKB", "diskWrKB")
              ELSE n.record = record /\ d.record = record

\* two samples are held, taken while network polling was off; switching it
\* on rewrites the network counters of the newest and keeps the older, and
\* a tick puts its sample in front of the two
C30_Witness ==
    /\ Len(record) > 1
    /\ network_traffic = "dummy"
    /\ record[1].netRxKB = 0
    /\ \E e \in HistEnvsAt(IoMaxTime) :
           LET r == ToggleNetOf(e, TRUE)
           IN /\ r.record[1].netRxKB > 0
              /\ r.record[1].timestamp = record[1].timestamp
              /\ r.record[2] = record[2]
    /\ \E now \in IoTimes : \E e \in HistEnvsAt(now) :
           LET r == TickOf(e, now)
           IN /\ ClockAdvances(now)
              /\ Produced(r) = 1
              /\ r.record[2] = record[1]

(* ------------------------------ C31 ------------------------------------ *)

RateFields == {"diskRdRate", "diskWrRate", "netRxRate", "netTxRate"}

\* every entry of the chart vector lies in [0, 1]
Between0And1(vector) ==
    \A i \in 1..Len(vector) :
        RLeq(RInt(0), vector[i]) /\ RLeq(vector[i], RInt(1))

\* the call r did not lower a running maximum
MaximaNotLowered(r) ==
    \A f \in RateFields : RLeq(maxRecord[f], r.maxRecord[f])

\* C31: for each rate field the running maximum never decreases and is at
\* least the rate of every sample held; every entry of
\* network_traffic_vector and disk_io_vector lies in [0, 1], and the
\* divisor of the two vectors is never zero.
C31_RunningMaximaBoundTheRates ==
    /\ \A f \in RateFields : \A i \in 1..Len(record) :
           RLeq(record[i][f], maxRecord[f])
    /\ RLess(RInt(0), RMax(maxRecord.netRxRate, maxRecord.netTxRate))
    /\ RLess(RInt(0), RMax(maxRecord.diskRdRate, maxRecord.diskWrRate))
    /\ \A limit \in 0..MaxLimit :
           /\ Between0And1(NetworkTrafficVectorLimit(Cur, limit, IoHistLen))
           /\ Between0And1(DiskIoVectorLimit(Cur, limit, IoHistLen))
    /\ \A now \in IoTimes : \A e \in HistEnvsAt(now) :
           MaximaNotLowered(TickOf(e, now))
    /\ \A e \in HistEnvsAt(IoMaxTime), enabled \in BOOLEAN :
           /\ MaximaNotLowered(ToggleNetOf(e, enabled))
           /\ MaximaNotLowered(ToggleDiskOf(e, enabled))

\* a disk rate above the initial maximum has become the maximum, the
\* newest sample has a smaller rate, and the chart shows the full scale
C31_Witness ==
    /\ Len(record) > 1
    /\ RLess(RInt(InitialMaxRate), maxRecord.diskRdRate)
    /\ REq(record[2].diskRdRate, maxRecord.diskRdRate)
    /\ RLess(record[1].diskRdRate, maxRecord.diskRdRate)
    /\ \E i \in 1..Len(DiskIoVectorLimit(Cur, MaxLimit, IoHistLen)) :
           RLess(RInt(0), DiskIoVectorLimit(Cur, MaxLimit, IoHistLen)[i])

(* ------------------------------ C32 ------------------------------------ *)

\* answers of a machine the hypervisor reports as shut off or as crashed,
\* its CPU counter standing at some value
StQuietEnvs ==
    {StEnv(d[1], d[2], c, 2, Ok(0, 0), Ok(0, 0), MaxTime, HistLen) :
         d \in {<<0 - 1, VIR_DOMAIN_SHUTOFF>>, <<1, VIR_DOMAIN_CRASHED>>},
         c \in StCpuTimes}

\* C32: a sample taken while the hypervisor reports the machine as shut off
\* or crashed has CPU time delta 0 and CPU percent 0, whatever the absolute
\* CPU counter says.
C32_QuietMachineHasNoCpuTime ==
    \A e \in StQuietEnvs, now \in Times :
        LET r == TickOf(e, now)
        IN \A i \in 1..Produced(r) :
               /\ r.record[i].cpuTime = 0
               /\ REq(r.record[i].cpuTimePercent, RInt(0))

\* the newest sample is of a running machine that had used CPU time; ticks
\* that find the machine crashed, and shut off, with a counter that has
\* grown since store a sample without CPU time
C32_Witness ==
    /\ record # <<>>
    /\ record[1].cpuTimeAbs > 0
    /\ \A st \in {VIR_DOMAIN_SHUTOFF, VIR_DOMAIN_CRASHED} :
           \E e \in StQuietEnvs, now \in Times :
               LET r == TickOf(e, now)
               IN /\ e.st = st
                  /\ e.cpu > record[1].cpuTimeAbs
                  /\ now > record[1].timestamp
                  /\ Produced(r) = 1
                  /\ r.record[1].cpuTime = 0
                  /\ r.record[1].cpuTimePercent = RInt(0)

(* ------------------------------ C33 ------------------------------------ *)

\* the answers to a tick at time now, the machine running or paused
HistStatusEnvsAt(now) ==
    {[e EXCEPT !.st = st] :
         e \in HistEnvsAt(now), st \in {VIR_DOMAIN_RUNNING, VIR_DOMAIN_PAUSED}}

CounterQueries == {"blockStats", "interfaceStats"}

\* the last entry of the log of the call r is ev
EndsWith(r, ev) == r.log # <<>> /\ r.log[Len(r.log)] = ev

\* the history as it is after the trim to the retention length n
TrimmedTo(rec, n) == IF Len(rec) > n THEN SubSeq(rec, 1, n) ELSE rec

\* C33 as stated: within one tick the lifecycle status is updated first,
\* then the cache is invalidated and the new sample is computed, the sample
\* is added and the history trimmed to the retention length, and
\* resources-sampled is queued last.
C33_TickStepsInStatedOrder ==
    \A now \in IoTimes : \A e \in HistStatusEnvsAt(now) :
        LET r == TickOf(e, now)
        IN /\ \A i \in 1..Len(r.log) : \A j \in (i + 1)..Len(r.log) :
                  r.log[j] = "status-changed" => r.log[i] \notin CounterQueries
           /\ ~r.is_xml_valid
           /\ ~Raised(r) => /\ Len(r.record) <= IoHistLen
                            /\ EndsWith(r, "resources-sampled")

\* C33, amended: within one tick the cache is invalidated and the state is
\* read, the history is trimmed to the retention length, the new sample is
\* computed and added at the front, the lifecycle status is updated from
\* the state read, and resources-sampled is queued last, directly after a
\* status-changed; a tick that raises before it adds a sample leaves the
\* stored status as it was.
C33_TickStepsInCodeOrder ==
    \A now \in IoTimes : \A e \in HistStatusEnvsAt(now) :
        LET r == TickOf(e, now)
        IN /\ r.log[1] = "info"
           /\ ~r.is_xml_valid
           /\ \A j \in 1..Len(r.log) :
                  r.log[j] = "status-changed"
                      => j < Len(r.log) /\ r.log[j + 1] = "resources-sampled"
           /\ Produced(r) <= 1
                  => SubSeq(r.record, Produced(r) + 1, Len(r.record))
                         = TrimmedTo(record, IoHistLen)
           /\ ~Raised(r) => Produced(r) >= 1 /\ EndsWith(r, "resources-sampled")
           /\ (Raised(r) /\ Produced(r) = 0)
                  => r.lastStatus = lastStatus /\ Queued(r, "status-changed") = 0

\* the history is full and both categories are polled; a tick that finds
\* the running machine paused reads the state, polls, and queues
\* status-changed and then resources-sampled, and the history holds one
\* sample more than the retention length
C33_Witness ==
    /\ lastStatus = VIR_DOMAIN_RUNNING
    /\ Len(record) = IoHistLen
    /\ \E now \in IoTimes : \E e \in HistStatusEnvsAt(now) :
           LET r == TickOf(e, now)
           IN /\ r.log = <<"info", "blockStats", "interfaceStats",
                           "status-changed", "resources-sampled">>
              /\ r.lastStatus = VIR_DOMAIN_PAUSED
              /\ Len(r.record) = IoHistLen + 1


-----------------------------------------------------------------------------
(* C34: fetch flags *)

\* every fetch of the call handed the hypervisor supported flags only
FlagsSupported(r, e) ==
    \A k \in 1..Len(r.flags) : HasDomFlags(e, r.flags[k])

\* C34: every fetch of the active and of the inactive document passes only
\* flags that the connection reports as supported, down to no flags at all
C34_FetchPassesOnlySupportedFlags ==
    /\ \A e \in CfgReadEnvs, c \in CfgCaps :
           FlagsSupported(GetXmlOf(WithCaps(e, c)), WithCaps(e, c))
    /\ \A e \in CfgInactiveReadEnvs, c \in CfgCaps :
           FlagsSupported(GetInactiveXmlOf(WithCaps(e, c)), WithCaps(e, c))


-----------------------------------------------------------------------------
(* C35: switching polling on *)

\* C35: with cumulative counters that are large and do not move, no sample
\* of the history carries a rate other than zero, whenever polling was
\* switched on: no rate is the difference of a real cumulative value and the
\* zero recorded while polling was off
C35_NoRateSpike ==
    \A i \in 1..Len(record) : \A f \in RateFields :
        REq(record[i][f], RInt(0))


-----------------------------------------------------------------------------
(* C36: two reads of the active document in a row *)

\* a get_xml made right after the call r returned fetches nothing
NextGetXmlMakesNoFetch(r) ==
    \A e2 \in CfgReadEnvs :
        ~InLog(GetXml([r EXCEPT !.log = <<>>], e2), "XMLDesc")

\* C36: when get_xml has returned, the cached active document is marked
\* valid and a second get_xml made right after it fetches nothing, also when
\* the first call found the document changed
C36_SecondGetXmlMakesNoFetch ==
    \A e \in CfgReadEnvs :
        LET r == GetXmlOf(e)
        IN ~Raised(r) => (r.is_xml_valid /\ NextGetXmlMakesNoFetch(r))


-----------------------------------------------------------------------------
(* C37: the divisions of tick *)

\* C37: no tick fails with a division by zero, whatever its timestamp: one
\* equal to the newest sample's and a first one at 0 included
C37_TickNeverDividesByZero ==
    \A e \in StEnvs, now \in Times :
        TickOf(e, now).exc # "ZeroDivisionError"


-----------------------------------------------------------------------------
(* C38: the fields of a sample *)

IntFields ==
    {"timestamp", "cpuTime", "cpuTimeAbs", "currMem", "vcpuCount", "maxMem",
     "diskRdKB", "diskWrKB", "netRxKB", "netTxKB"}
FloatFields ==
    {"cpuTimePercent", "currMemPercent", "maxMemPercent",
     "cpuTimeMovingAvgPercent"} \cup RateFields

IsFloat(v) == v.n \in Int /\ v.d \in Int /\ v.d # 0

\* C38: every field of every sample of the history is a number, the CPU
\* moving average of the first sample, taken on an empty history, included
C38_EverySampleFieldIsANumber ==
    \A i \in 1..Len(record) :
        /\ \A f \in IntFields : record[i][f] \in Int
        /\ \A f \in FloatFields : IsFloat(record[i][f])
        /\ record[i].cpuTimeMovingAvg.num


-----------------------------------------------------------------------------
(* C39: the order of the two memory calls *)

\* the backend's memory after the calls, one after the other, are applied
\* to its current and maximum memory b
RECURSIVE BackendMemAfter(_, _)
BackendMemAfter(b, calls) ==
    IF calls = <<>> THEN b
    ELSE BackendMemAfter(IF Head(calls).call = "setMemory"
                         THEN [b EXCEPT !.cur = Head(calls).value]
                         ELSE [b EXCEPT !.max = Head(calls).value],
                         Tail(calls))

\* after each of the calls the current memory is within the maximum
CurrentWithinMaximum(e, calls) ==
    \A k \in 1..Len(calls) :
        LET b == BackendMemAfter([cur |-> e.mem, max |-> e.maxmem],
                                 SubSeq(calls, 1, k))
        IN b.cur <= b.max

\* the newest sample's current memory is the backend's
SampledCurrentIsBackends(e) == record # <<>> /\ record[1].currMem = e.mem

\* C39: hotplug_both_mem(memory, maxmem) with 0 < memory <= maxmem on an
\* active machine whose sampled current memory is the backend's makes its
\* calls in an order that keeps the backend's current memory within its
\* maximum after each of them; on an inactive machine it makes no call
C39_HotplugKeepsCurrentWithinMaximum ==
    \A e \in HpEnvs, memory \in HpRequests, maxmem \in HpRequests :
        LET r == HotplugBothMemOf(e, memory, maxmem)
        IN /\ (/\ IsActive(e)
               /\ 0 < memory
               /\ memory <= maxmem
               /\ SampledCurrentIsBackends(e))
                  => CurrentWithinMaximum(e, r.memcalls)
           /\ ~IsActive(e) => r.memcalls = <<>>


-----------------------------------------------------------------------------
(* C40: a tick without an active connection *)

\* C40: a tick made while the connection is not in its active state changes
\* nothing (history, running maxima, cached documents and validity flag,
\* stored lifecycle state), queues no notification and makes no query
C40_TickOnInactiveConnectionChangesNothing ==
    \A e \in CfgTickEnvs, now \in CfgTimes :
        ~e.conn => TickOf(e, now) = Cur

\* a valid cached document and a history are there, and the tick that
\* changes nothing would have dropped the validity and added a sample had
\* the connection been active
C40_Witness ==
    /\ xml # NoDoc
    /\ is_xml_valid
    /\ record # <<>>
    /\ \E e \in CfgTickEnvs :
           LET r == TickOf(e, MaxTime)
               r2 == TickOf([e EXCEPT !.conn = TRUE], MaxTime)
           IN /\ ~e.conn
              /\ r = Cur
              /\ r.log = <<>>
              /\ ~r2.is_xml_valid
              /\ InLog(r2, "info")
              /\ Produced(r2) = 1

====
